---- MODULE Spec2Model ----
(***************************************************************************)
(* A model of electrumx/lib/tx.py: the cursor-based Deserializer, its      *)
(* primitive reads, the varint codec, the transaction records and the      *)
(* legacy / SegWit / Litecoin / time-stamped / Decred decoders.            *)
(*                                                                         *)
(* Conventions.                                                            *)
(*  - A buffer is a sequence of bytes (0..255).  Python indexes from 0,    *)
(*    TLA+ from 1: Python's binary[i] is b[i + 1], and Python's            *)
(*    binary[i:j] is Slice(b, i, j).                                       *)
(*  - Unsigned integers wider than 31 bits do not fit TLC's integers, so   *)
(*    an unsigned value (uint16/uint32/uint64, a varint) is held as its    *)
(*    canonical little-endian base-256 digits (no trailing zero digit):    *)
(*    0 is <<>>, 1 is <<1>>, 65536 is <<0, 0, 1>>.  int32 values are TLC   *)
(*    integers; an int64 is a sign and a magnitude.                        *)
(*  - A reader takes the buffer and the cursor and returns the record      *)
(*    [cursor, val, err]: the cursor as the code leaves it, the value      *)
(*    returned, and the exception raised ("" when it returns).             *)
(***************************************************************************)
EXTENDS Integers, Sequences, FiniteSets, TLC

VARIABLES cls, binary, cursor, op, arg, start, ret, err, peer

vars == <<cls, binary, cursor, op, arg, start, ret, err, peer>>

(***************************************************************************)
(* Bounds of the model.                                                    *)
(***************************************************************************)
\* cursor values at or beyond CursorCap are identified (every buffer of the
\* model is far shorter, so they all lie beyond the end of the buffer)
CursorCap == 16777216
\* largest explicit argument n given to _read_nbytes(n)
MaxNBytes == 3
\* largest start position of a Deserializer over a primitive-read buffer
MaxStart == 2
\* longest primitive-read buffer
MaxReadLen == 18
\* most inputs, and most outputs, of a generated transaction
MaxInputs == 2
MaxOutputs == 1
\* a generated transaction is also given with up to MaxCut final bytes
\* missing, cut to each of its first MaxHead bytes, after MaxPrefix other
\* bytes, and before MaxTrail other bytes
MaxCut == 2
MaxHead == 7
MaxPrefix == 1
MaxTrail == 1
\* most records of each skipped kind (shielded spends, outputs, joinsplits,
\* actions) in a generated Zcash or PIVX transaction
MaxRecords == 1
\* largest static_header_size given to read_header (the smallest holds the
\* 4-byte version)
MaxStaticHeader == 5
\* most hashes in a Merkle branch of a generated CAuxPow
MaxMerkle == 1
\* most transactions in a list of a generated block
MaxBlockTxs == 2
\* most items after the count of a generated loop
MaxLoopItems == 2
\* _read_byte is called on an interleaved Deserializer only below this cursor
MaxByteReads == 2

(***************************************************************************)
(* Bytes, slices and numbers.                                              *)
(***************************************************************************)
Byte == 0..255

Min(a, b) == IF a < b THEN a ELSE b

Max(a, b) == IF a < b THEN b ELSE a

\* Python's b[i:j] for 0 <= i: clipped to the buffer, empty when i >= j
Slice(b, i, j) == SubSeq(b, i + 1, Min(j, Len(b)))

Take(s, k) == SubSeq(s, 1, Min(k, Len(s)))

Zeros(n) == [i \in 1..n |-> 0]

Rep(x, n) == [i \in 1..n |-> x]

\* canonical digits: drop the trailing (most significant) zero digits
RECURSIVE Strip(_)
Strip(s) ==
    IF s = <<>> THEN <<>>
    ELSE IF s[Len(s)] = 0 THEN Strip(SubSeq(s, 1, Len(s) - 1))
    ELSE s

\* the digits of a small natural number
RECURSIVE ToNum(_)
ToNum(i) == IF i = 0 THEN <<>> ELSE <<i % 256>> \o ToNum(i \div 256)

\* the value of an unsigned number as a TLC integer, saturated at CursorCap
NumVal(n) ==
    IF Len(n) > 3 THEN CursorCap
    ELSE Min(CursorCap,
             (IF Len(n) >= 1 THEN n[1] ELSE 0)
             + (IF Len(n) >= 2 THEN 256 * n[2] ELSE 0)
             + (IF Len(n) >= 3 THEN 65536 * n[3] ELSE 0))

\* cursor arithmetic, saturated at CursorCap
Sat(x) == Min(x, CursorCap)

\* the w-byte little-endian encoding of an unsigned number of at most w digits
Pad(n, w) == n \o Zeros(w - Len(n))

\* two's complement negation of a w-byte little-endian word
RECURSIVE AddOne(_)
AddOne(s) ==
    IF s = <<>> THEN <<>>
    ELSE IF s[1] = 255 THEN <<0>> \o AddOne(Tail(s))
    ELSE <<s[1] + 1>> \o Tail(s)

Negate(s) == AddOne([i \in 1..Len(s) |-> 255 - s[i]])

ZERO == Zeros(32)

MINUS_1 == Rep(255, 4)

(***************************************************************************)
(* electrumx.lib.util: the struct packers and unpackers.                   *)
(***************************************************************************)
Unpacked(v) == [err |-> "", val |-> v]

StructError == [err |-> "struct.error", val |-> <<>>]

\* struct.unpack_from needs w bytes at offset c
unpack_from(b, c, w) ==
    IF c + w <= Len(b) THEN Unpacked(SubSeq(b, c + 1, c + w)) ELSE StructError

unpack_le_uint16_from(b, c) ==
    LET u == unpack_from(b, c, 2)
    IN  IF u.err # "" THEN u ELSE Unpacked(Strip(u.val))

unpack_be_uint16_from(b, c) ==
    LET u == unpack_from(b, c, 2)
    IN  IF u.err # "" THEN u ELSE Unpacked(Strip(<<u.val[2], u.val[1]>>))

unpack_le_uint32_from(b, c) ==
    LET u == unpack_from(b, c, 4)
    IN  IF u.err # "" THEN u ELSE Unpacked(Strip(u.val))

unpack_le_uint64_from(b, c) ==
    LET u == unpack_from(b, c, 8)
    IN  IF u.err # "" THEN u ELSE Unpacked(Strip(u.val))

unpack_le_int32_from(b, c) ==
    LET u == unpack_from(b, c, 4)
        w == u.val
    IN  IF u.err # "" THEN u
        ELSE Unpacked(w[1] + 256 * w[2] + 65536 * w[3]
                      + 16777216 * (IF w[4] >= 128 THEN w[4] - 256 ELSE w[4]))

unpack_le_int64_from(b, c) ==
    LET u == unpack_from(b, c, 8)
        w == u.val
    IN  IF u.err # "" THEN u
        ELSE IF w[8] >= 128
             THEN Unpacked([neg |-> TRUE, mag |-> Strip(Negate(w))])
             ELSE Unpacked([neg |-> FALSE, mag |-> Strip(w)])

pack_le_int32(v) ==
    <<v % 256, (v \div 256) % 256, (v \div 65536) % 256, (v \div 16777216) % 256>>

pack_le_uint16(n) == Pad(n, 2)

pack_le_uint32(n) == Pad(n, 4)

pack_le_uint64(n) == Pad(n, 8)

pack_le_int64(v) == IF v.neg THEN Negate(Pad(v.mag, 8)) ELSE Pad(v.mag, 8)

\* the compact-size encoding, smallest width first
pack_varint(n) ==
    IF Len(n) = 0 \/ (Len(n) = 1 /\ n[1] < 253) THEN Pad(n, 1)
    ELSE IF Len(n) <= 2 THEN <<253>> \o pack_le_uint16(n)
    ELSE IF Len(n) <= 4 THEN <<254>> \o pack_le_uint32(n)
    ELSE <<255>> \o pack_le_uint64(n)

pack_varbytes(data) == pack_varint(ToNum(Len(data))) \o data

(***************************************************************************)
(* Deserializer: the primitive reads.                                      *)
(***************************************************************************)
Return(c, v) == [cursor |-> c, val |-> v, err |-> ""]

Raise(c, e) == [cursor |-> c, val |-> <<>>, err |-> e]

_read_byte(b, c) ==
    IF c < Len(b) THEN Return(c + 1, b[c + 1]) ELSE Raise(c + 1, "IndexError")

\* the same without its assertion: a short slice comes back
_read_nbytes_unchecked(b, c, n) == Return(Sat(c + n), Slice(b, c, Sat(c + n)))

_read_nbytes(b, c, n) ==
    LET end == Sat(c + n)
    IN  IF Len(b) >= end THEN Return(end, Slice(b, c, end))
        ELSE Raise(end, "AssertionError")

_read_le_int32(b, c) ==
    LET u == unpack_le_int32_from(b, c)
    IN  IF u.err # "" THEN Raise(c, u.err) ELSE Return(c + 4, u.val)

_read_le_int64(b, c) ==
    LET u == unpack_le_int64_from(b, c)
    IN  IF u.err # "" THEN Raise(c, u.err) ELSE Return(c + 8, u.val)

_read_le_uint16(b, c) ==
    LET u == unpack_le_uint16_from(b, c)
    IN  IF u.err # "" THEN Raise(c, u.err) ELSE Return(c + 2, u.val)

_read_be_uint16(b, c) ==
    LET u == unpack_be_uint16_from(b, c)
    IN  IF u.err # "" THEN Raise(c, u.err) ELSE Return(c + 2, u.val)

_read_le_uint32(b, c) ==
    LET u == unpack_le_uint32_from(b, c)
    IN  IF u.err # "" THEN Raise(c, u.err) ELSE Return(c + 4, u.val)

_read_le_uint64(b, c) ==
    LET u == unpack_le_uint64_from(b, c)
    IN  IF u.err # "" THEN Raise(c, u.err) ELSE Return(c + 8, u.val)

\* the same with the 2-byte form taken for the marker 254 as well
_read_varint_narrow(b, c) ==
    IF c >= Len(b) THEN Raise(c, "IndexError")
    ELSE LET n == b[c + 1]
         IN  IF n < 253 THEN Return(c + 1, ToNum(n))
             ELSE IF n = 253 \/ n = 254 THEN _read_le_uint16(b, c + 1)
             ELSE _read_le_uint64(b, c + 1)

_read_varint(b, c) ==
    IF c >= Len(b) THEN Raise(c, "IndexError")
    ELSE LET n == b[c + 1]
         IN  IF n < 253 THEN Return(c + 1, ToNum(n))
             ELSE IF n = 253 THEN _read_le_uint16(b, c + 1)
             ELSE IF n = 254 THEN _read_le_uint32(b, c + 1)
             ELSE _read_le_uint64(b, c + 1)

_read_varbytes(b, c) ==
    LET n == _read_varint(b, c)
    IN  IF n.err # "" THEN n ELSE _read_nbytes(b, n.cursor, NumVal(n.val))

(***************************************************************************)
(* The transaction records and their serializers.                          *)
(***************************************************************************)
Tx(version, inputs, outputs, locktime) ==
    [type |-> "Tx", version |-> version, inputs |-> inputs, outputs |-> outputs,
     locktime |-> locktime]

TxInput(prev_hash, prev_idx, script, sequence) ==
    [type |-> "TxInput", prev_hash |-> prev_hash, prev_idx |-> prev_idx,
     script |-> script, sequence |-> sequence]

TxOutput(value, pk_script) ==
    [type |-> "TxOutput", value |-> value, pk_script |-> pk_script]

TxSegWit(version, marker, flag, inputs, outputs, witness, locktime) ==
    [type |-> "TxSegWit", version |-> version, marker |-> marker, flag |-> flag,
     inputs |-> inputs, outputs |-> outputs, witness |-> witness,
     locktime |-> locktime]

\* b''.join(parts)
RECURSIVE Join(_)
Join(parts) == IF parts = <<>> THEN <<>> ELSE Head(parts) \o Join(Tail(parts))

\* the same writing the script without its length
TxInput_serialize_raw_script(tx_in) ==
    Join(<< tx_in.prev_hash,
            pack_le_uint32(tx_in.prev_idx),
            tx_in.script,
            pack_le_uint32(tx_in.sequence) >>)

TxInput_serialize(tx_in) ==
    Join(<< tx_in.prev_hash,
            pack_le_uint32(tx_in.prev_idx),
            pack_varbytes(tx_in.script),
            pack_le_uint32(tx_in.sequence) >>)

TxOutput_serialize(tx_out) ==
    Join(<< pack_le_int64(tx_out.value),
            pack_varbytes(tx_out.pk_script) >>)

Tx_serialize(tx) ==
    Join(<< pack_le_int32(tx.version),
            pack_varint(ToNum(Len(tx.inputs))),
            Join([i \in 1..Len(tx.inputs) |-> TxInput_serialize(tx.inputs[i])]),
            pack_varint(ToNum(Len(tx.outputs))),
            Join([i \in 1..Len(tx.outputs) |-> TxOutput_serialize(tx.outputs[i])]),
            pack_le_uint32(tx.locktime) >>)

\* the same looking at prev_idx only
TxInput_is_generation_idx_only(tx_in) == tx_in.prev_idx = MINUS_1

\* the inputs of every input class that is not a Decred input
TxInput_is_generation(tx_in) == tx_in.prev_idx = MINUS_1 /\ tx_in.prev_hash = ZERO

(***************************************************************************)
(* The hash functions are external: a digest is held as the function's     *)
(* name and the byte string handed to it.                                  *)
(***************************************************************************)
double_sha256(data) == [fn |-> "double_sha256", data |-> data]

sha256(data) == [fn |-> "sha256", data |-> data]

(***************************************************************************)
(* Statements in sequence.  Bind(r, K) is a call r followed by the         *)
(* statements K: they run on r's result unless r raised, and then the      *)
(* exception is the outcome of the whole method.  ReadFields reads the     *)
(* fields of a layout one after the other, a layout being the (name, read) *)
(* pairs of a method's reads in the order of its statements; it gives each *)
(* field's value (val) and the cursor after it (end) under the field's     *)
(* name.  ReadField is the read a layout names; a read that depends on an  *)
(* earlier field (the witness on the number of inputs, a field on the      *)
(* version or the flag) finds it in the values read so far.                *)
(***************************************************************************)
Bind(r, K(_)) == IF r.err # "" THEN r ELSE K(r)

\* every loop of the decoders runs through Read: what names the loop or the
\* read of one element, x holds the loop's state
RECURSIVE Read(_, _, _, _)

Fields(b, c, layout) ==
    Read("fields", b, c, [layout |-> layout, i |-> 1, got |-> <<>>, ends |-> <<>>])

\* [read() for i in range(n)] for the reader named kind
Items(kind, b, c, n) ==
    Read("items", b, c, [kind |-> kind, n |-> n, i |-> 0, acc |-> <<>>])

ReadFields(b, c, x) ==
    IF x.i > Len(x.layout)
    THEN [cursor |-> c, val |-> x.got, end |-> x.ends, err |-> ""]
    ELSE Bind(Read("field", b, c, [kind |-> x.layout[x.i][2], got |-> x.got]),
              LAMBDA r:
              Read("fields", b, r.cursor,
                   [x EXCEPT !.i = @ + 1,
                             !.got = @ @@ (x.layout[x.i][1] :> r.val),
                             !.ends = @ @@ (x.layout[x.i][1] :> r.cursor)]))

ReadItems(b, c, x) ==
    IF ToNum(x.i) = x.n THEN Return(c, x.acc)
    ELSE Bind(Read("item", b, c, [kind |-> x.kind]), LAMBDA r:
         Read("items", b, r.cursor,
              [x EXCEPT !.i = @ + 1, !.acc = Append(@, r.val)]))

(***************************************************************************)
(* Deserializer: inputs, outputs and witnesses.  A list comprehension      *)
(* [read() for i in range(n)] is Items(kind, b, c, n): items are read      *)
(* until n are read or a read raises.                                      *)
(***************************************************************************)
_read_input(b, c) ==
    Bind(Fields(b, c, << <<"prev_hash", "nbytes32">>, <<"prev_idx", "le_uint32">>,
                         <<"script", "varbytes">>, <<"sequence", "le_uint32">> >>),
         LAMBDA f: Return(f.cursor, TxInput(f.val.prev_hash, f.val.prev_idx,
                                            f.val.script, f.val.sequence)))

_read_output(b, c) ==
    Bind(Fields(b, c, << <<"value", "le_int64">>, <<"pk_script", "varbytes">> >>),
         LAMBDA f: Return(f.cursor, TxOutput(f.val.value, f.val.pk_script)))

TxInputDcr(prev_hash, prev_idx, tree, sequence) ==
    [type |-> "TxInputDcr", prev_hash |-> prev_hash, prev_idx |-> prev_idx,
     tree |-> tree, sequence |-> sequence]

TxOutputDcr(value, version, pk_script) ==
    [type |-> "TxOutputDcr", value |-> value, version |-> version,
     pk_script |-> pk_script]

TxInputDcr_is_generation(tx_in) == tx_in.prev_idx = MINUS_1 /\ tx_in.prev_hash = ZERO

DeserializerDecred_read_input(b, c) ==
    Bind(Fields(b, c, << <<"prev_hash", "nbytes32">>, <<"prev_idx", "le_uint32">>,
                         <<"tree", "byte">>, <<"sequence", "le_uint32">> >>),
         LAMBDA f: Return(f.cursor, TxInputDcr(f.val.prev_hash, f.val.prev_idx,
                                               f.val.tree, f.val.sequence)))

DeserializerDecred_read_output(b, c) ==
    Bind(Fields(b, c, << <<"value", "le_int64">>, <<"version", "le_uint16">>,
                         <<"pk_script", "varbytes">> >>),
         LAMBDA f: Return(f.cursor, TxOutputDcr(f.val.value, f.val.version,
                                                f.val.pk_script)))

DeserializerDecred_read_witness_field(b, c) ==
    Bind(Fields(b, c, << <<"value_in", "le_int64">>, <<"block_height", "le_uint32">>,
                         <<"block_index", "le_uint32">>, <<"script", "varbytes">> >>),
         LAMBDA f: Return(f.cursor, << f.val.value_in, f.val.block_height,
                                       f.val.block_index, f.val.script >>))

\* [read_varbytes() for i in range(self._read_varint())]
_read_witness_field(b, c) ==
    Bind(_read_varint(b, c), LAMBDA n:
    Items("varbytes", b, n.cursor, n.val))

(***************************************************************************)
(* DeserializerTokenPay: an input whose script is an anonymous-input       *)
(* script is serialized again and decoded by a Deserializer of its own.    *)
(***************************************************************************)
OP_RETURN == 106

OP_ANON_MARKER == 185

MIN_ANON_IN_SIZE == 2 + (33 + 32 + 32)

TxInputTokenPay(prev_hash, prev_idx, script, sequence) ==
    [type |-> "TxInputTokenPay", prev_hash |-> prev_hash, prev_idx |-> prev_idx,
     script |-> script, sequence |-> sequence]

TxInputTokenPayStealth(keyimage, ringsize, script, sequence) ==
    [type |-> "TxInputTokenPayStealth", keyimage |-> keyimage, ringsize |-> ringsize,
     script |-> script, sequence |-> sequence]

\* the same without the minimum length
_is_anon_input_any_length(tx_in) ==
    /\ Len(tx_in.script) >= 2
    /\ tx_in.script[1] = OP_RETURN
    /\ tx_in.script[2] = OP_ANON_MARKER

_is_anon_input(tx_in) ==
    /\ Len(tx_in.script) >= MIN_ANON_IN_SIZE
    /\ tx_in.script[1] = OP_RETURN
    /\ tx_in.script[2] = OP_ANON_MARKER

StealthLayout ==
    << <<"keyimage", "nbytes33">>, <<"ringsize", "nbytes3">>, <<"script", "varbytes">>,
       <<"sequence", "le_uint32">> >>

\* the same with the reads of the second Deserializer moving self.cursor
DeserializerTokenPay_stealth_own_cursor(raw, c) ==
    Bind(Fields(raw, c, StealthLayout), LAMBDA f:
    Return(f.cursor, TxInputTokenPayStealth(f.val.keyimage, f.val.ringsize,
                                            f.val.script, f.val.sequence)))

\* deserializer = Deserializer(raw) and its four reads; c is self.cursor,
\* which they leave alone
DeserializerTokenPay_stealth(raw, c) ==
    Bind([Fields(raw, 0, StealthLayout) EXCEPT !.cursor = c], LAMBDA f:
    Return(c, TxInputTokenPayStealth(f.val.keyimage, f.val.ringsize,
                                     f.val.script, f.val.sequence)))

DeserializerTokenPay_read_input(b, c) ==
    Bind(_read_input(b, c), LAMBDA txin:
    IF _is_anon_input(txin.val)
    THEN DeserializerTokenPay_stealth(TxInput_serialize(txin.val), txin.cursor)
    ELSE Return(txin.cursor, TxInputTokenPay(txin.val.prev_hash, txin.val.prev_idx,
                                             txin.val.script, txin.val.sequence)))

\* DeserializerZcoin._read_input: a generation-like input is returned as it
\* is; tx_input.script[0] == 0xc4 (which raises IndexError on an empty
\* script) marks a Sigma spend, returned with ZERO and MINUS_1
DeserializerZcoin_read_input(b, c) ==
    Bind(_read_input(b, c), LAMBDA tx_input:
    IF TxInput_is_generation(tx_input.val) THEN Return(tx_input.cursor, tx_input.val)
    ELSE IF tx_input.val.script = <<>> THEN Raise(tx_input.cursor, "IndexError")
    ELSE IF tx_input.val.script[1] = 196
         THEN Return(tx_input.cursor, TxInput(ZERO, MINUS_1, tx_input.val.script,
                                              tx_input.val.sequence))
         ELSE Return(tx_input.cursor, tx_input.val))

ReadItem(kind, b, c) ==
    CASE kind = "input" -> _read_input(b, c)
      [] kind = "output" -> _read_output(b, c)
      [] kind = "varbytes" -> _read_varbytes(b, c)
      [] kind = "witness_field" -> _read_witness_field(b, c)
      [] kind = "input_dcr" -> DeserializerDecred_read_input(b, c)
      [] kind = "output_dcr" -> DeserializerDecred_read_output(b, c)
      [] kind = "witness_field_dcr" -> DeserializerDecred_read_witness_field(b, c)
      [] kind = "input_tokenpay" -> DeserializerTokenPay_read_input(b, c)
      [] kind = "input_zcoin" -> DeserializerZcoin_read_input(b, c)

\* Deserializer._read_inputs with the _read_input of DeserializerTokenPay
DeserializerTokenPay_read_inputs(b, c) ==
    Bind(_read_varint(b, c), LAMBDA n:
    Items("input_tokenpay", b, n.cursor, n.val))

DeserializerZcoin_read_inputs(b, c) ==
    Bind(_read_varint(b, c), LAMBDA n:
    Items("input_zcoin", b, n.cursor, n.val))

_read_inputs(b, c) ==
    Bind(_read_varint(b, c), LAMBDA n:
    Items("input", b, n.cursor, n.val))

_read_outputs(b, c) ==
    Bind(_read_varint(b, c), LAMBDA n:
    Items("output", b, n.cursor, n.val))

\* [read_witness_field() for i in range(fields)]
_read_witness(b, c, fields) == Items("witness_field", b, c, ToNum(fields))

DeserializerDecred_read_inputs(b, c) ==
    Bind(_read_varint(b, c), LAMBDA n:
    Items("input_dcr", b, n.cursor, n.val))

DeserializerDecred_read_outputs(b, c) ==
    Bind(_read_varint(b, c), LAMBDA n:
    Items("output_dcr", b, n.cursor, n.val))

\* the same without the assertion on the witness count
DeserializerDecred_read_witness_unchecked(b, c, fields) ==
    Bind(_read_varint(b, c), LAMBDA n:
    Items("witness_field_dcr", b, n.cursor, ToNum(fields)))

\* assert fields == self._read_varint(); then one witness field per input
DeserializerDecred_read_witness(b, c, fields) ==
    Bind(_read_varint(b, c), LAMBDA n:
    IF ToNum(fields) # n.val THEN Raise(n.cursor, "AssertionError")
    ELSE Items("witness_field_dcr", b, n.cursor, ToNum(fields)))

(***************************************************************************)
(* The reads that depend on a field read before them.                      *)
(***************************************************************************)
SkipTxDeserialize == "SkipTxDeserialize"

\* the same reading a witness stack per input whatever the flag
LitecoinWitnessAlways(b, c, flag, fields) == _read_witness(b, c, fields)

\* if flag & 1: witness = self._read_witness(len(inputs)) else: witness = []
LitecoinWitness(b, c, flag, fields) ==
    IF flag % 2 = 1 THEN _read_witness(b, c, fields) ELSE Return(c, <<>>)

\* the same without the test of the flag byte
LitecoinZeroFlagAccepted(flag) == FALSE

\* if flag == 0: raise SkipTxDeserialize
LitecoinZeroFlag(flag) == flag = 0

\* flag = self._read_byte(); if flag == 0: raise SkipTxDeserialize
LitecoinFlag(b, c) ==
    Bind(_read_byte(b, c), LAMBDA flag:
    IF LitecoinZeroFlag(flag.val) THEN Raise(flag.cursor, SkipTxDeserialize) ELSE flag)

\* the same skipping whenever the MWEB bit is set
LitecoinMwebAlwaysSkips(b, c, flag) ==
    IF (flag \div 8) % 2 = 1
    THEN Bind(_read_byte(b, c), LAMBDA m: Raise(m.cursor, SkipTxDeserialize))
    ELSE Return(c, <<>>)

\* if flag & 8: if self._read_byte() != 0: raise SkipTxDeserialize
LitecoinMweb(b, c, flag) ==
    IF (flag \div 8) % 2 = 1
    THEN Bind(_read_byte(b, c), LAMBDA m:
         IF m.val # 0 THEN Raise(m.cursor, SkipTxDeserialize)
         ELSE Return(m.cursor, <<>>))
    ELSE Return(c, <<>>)

\* if version >= 2: strDZeel = self._read_varbytes()
NavCoinStrDZeel(b, c, version) ==
    IF version >= 2 THEN _read_varbytes(b, c) ELSE Return(c, <<>>)

\* the display form of a hash: the bytes reversed, in hexadecimal
hash_to_hex_str(x) == [hex |-> [i \in 1..Len(x) |-> x[Len(x) + 1 - i]]]

bitcoin_diamond_tx_version == 12

None == [type |-> "NoneType"]

\* hash_to_hex_str(self._read_nbytes(32)) when the version is 12, else None
BitcoinDiamondPreblockhash(b, c, version) ==
    IF version = bitcoin_diamond_tx_version
    THEN Bind(_read_nbytes(b, c, 32), LAMBDA h: Return(h.cursor, hash_to_hex_str(h.val)))
    ELSE Return(c, None)

(***************************************************************************)
(* DeserializerZcash, DeserializerPIVX and DeserializerECCoin: the fields   *)
(* that are skipped by moving the cursor, not read.                        *)
(***************************************************************************)
\* n * k for a count n read from the buffer, saturated at CursorCap
Times(n, k) == IF NumVal(n) > CursorCap \div k THEN CursorCap ELSE NumVal(n) * k

\* self.cursor += n
Skip(c, n) == Return(Sat(c + n), <<>>)

\* the value of an unsigned number below 2^31 as an integer
IntOf(n) ==
    (IF Len(n) >= 1 THEN n[1] ELSE 0) + (IF Len(n) >= 2 THEN 256 * n[2] ELSE 0)
    + (IF Len(n) >= 3 THEN 65536 * n[3] ELSE 0)
    + (IF Len(n) >= 4 THEN 16777216 * n[4] ELSE 0)

ZIP225_VERSION_GROUP_ID == 648488714

ZIP225_TX_VERSION == 5

\* overwintered = ((header >> 31) == 1)
ZcashOverwintered(header) == Len(header) = 4 /\ header[4] >= 128

\* version = header & 0x7fffffff if overwintered else header
ZcashVersion(header) ==
    IF ZcashOverwintered(header)
    THEN IntOf([header EXCEPT ![4] = @ - 128])
    ELSE IntOf(header)

\* nVersionGroupId = self._read_le_uint32(), read only if overwintered
ZcashGroupId(b, c, header) ==
    IF ZcashOverwintered(header) THEN _read_le_uint32(b, c) ELSE Return(c, <<>>)

\* is_zip225_v5
ZcashIsZip225(got) ==
    /\ ZcashOverwintered(got.header)
    /\ got.group = ToNum(ZIP225_VERSION_GROUP_ID)
    /\ ZcashVersion(got.header) = ZIP225_TX_VERSION

\* v5: nConsensusBranchId and nLockTime are read and nExpiryHeight skipped
\* before the inputs; the value is nLockTime
ZcashHeadV5(b, c, got) ==
    IF ZcashIsZip225(got)
    THEN Bind(_read_le_uint32(b, c), LAMBDA branch:
         Bind(_read_le_uint32(b, branch.cursor), LAMBDA nLockTime:
         Return(Sat(nLockTime.cursor + 4), nLockTime.val)))
    ELSE Return(c, <<>>)

\* the locktime of the Tx: read after the outputs, or nLockTime for v5
ZcashLocktime(b, c, got) ==
    IF ZcashIsZip225(got) THEN Return(c, got.head5) ELSE _read_le_uint32(b, c)

\* if is_overwinter_v3 or is_sapling_v4: self.cursor += 4
ZcashExpiry(b, c, got) ==
    IF ~ZcashIsZip225(got) /\ ZcashVersion(got.header) \in {3, 4}
    THEN Skip(c, 4) ELSE Return(c, <<>>)

\* if is_sapling_v4: valueBalance, vShieldedSpend, vShieldedOutput; the
\* value is has_shielded
ZcashSapling(b, c, got) ==
    IF ~ZcashIsZip225(got) /\ ZcashVersion(got.header) = 4
    THEN Bind(_read_varint(b, Sat(c + 8)), LAMBDA spend:
         Bind(_read_varint(b, Sat(spend.cursor + Times(spend.val, 384))), LAMBDA out:
         Return(Sat(out.cursor + Times(out.val, 948)),
                spend.val # <<>> \/ out.val # <<>>)))
    ELSE Return(c, FALSE)

\* the joinsplits with one description width for every version
ZcashJoinsplit_one_width(b, c, got) ==
    IF ~ZcashIsZip225(got) /\ ZcashVersion(got.header) >= 2
    THEN Bind(_read_varint(b, c), LAMBDA js:
         IF js.val # <<>>
         THEN Skip(js.cursor, Times(js.val, 1506 + 296) + 32 + 64)
         ELSE Return(js.cursor, <<>>))
    ELSE Return(c, <<>>)

\* if base_tx.version >= 2: the joinsplits, their key and their signature
ZcashJoinsplit(b, c, got) ==
    IF ~ZcashIsZip225(got) /\ ZcashVersion(got.header) >= 2
    THEN Bind(_read_varint(b, c), LAMBDA js:
         IF js.val # <<>>
         THEN Skip(js.cursor,
                   Times(js.val, 1506 + (IF ZcashVersion(got.header) = 4 THEN 192 ELSE 296))
                   + 32 + 64)
         ELSE Return(js.cursor, <<>>))
    ELSE Return(c, <<>>)

\* if is_sapling_v4 and has_shielded: self.cursor += 64
ZcashBindingSig(b, c, got) ==
    IF ~ZcashIsZip225(got) /\ ZcashVersion(got.header) = 4 /\ got.sapling
    THEN Skip(c, 64) ELSE Return(c, <<>>)

\* v5: the Sapling bundle
ZcashSaplingV5(b, c, got) ==
    IF ZcashIsZip225(got)
    THEN Bind(_read_varint(b, c), LAMBDA nSpends:
         Bind(_read_varint(b, Sat(nSpends.cursor + Times(nSpends.val, 96))), LAMBDA nOutputs:
         Skip(nOutputs.cursor,
              Times(nOutputs.val, 756)
              + (IF nSpends.val # <<>> \/ nOutputs.val # <<>> THEN 8 ELSE 0)
              + (IF nSpends.val # <<>> THEN 32 ELSE 0)
              + Times(nSpends.val, 192) + Times(nSpends.val, 64)
              + Times(nOutputs.val, 192)
              + (IF nSpends.val # <<>> \/ nOutputs.val # <<>> THEN 64 ELSE 0))))
    ELSE Return(c, <<>>)

\* the Orchard bundle without its flags byte
ZcashOrchardV5_no_flags(b, c, got) ==
    IF ZcashIsZip225(got)
    THEN Bind(_read_varint(b, c), LAMBDA nActions:
         IF nActions.val = <<>> THEN Return(nActions.cursor, <<>>)
         ELSE Bind(_read_varint(b, Sat(nActions.cursor + Times(nActions.val, 820)
                                          + 8 + 32)), LAMBDA sizeProofs:
              Skip(sizeProofs.cursor,
                   NumVal(sizeProofs.val) + Times(nActions.val, 64) + 64)))
    ELSE Return(c, <<>>)

\* v5: the Orchard bundle
ZcashOrchardV5(b, c, got) ==
    IF ZcashIsZip225(got)
    THEN Bind(_read_varint(b, c), LAMBDA nActions:
         IF nActions.val = <<>> THEN Return(nActions.cursor, <<>>)
         ELSE Bind(_read_varint(b, Sat(nActions.cursor + Times(nActions.val, 820)
                                          + 1 + 8 + 32)), LAMBDA sizeProofs:
              Skip(sizeProofs.cursor,
                   NumVal(sizeProofs.val) + Times(nActions.val, 64) + 64)))
    ELSE Return(c, <<>>)

\* tx_type = header >> 16, or 0 when the low 16 bits are a version below 3
PIVXTxType(header) ==
    IF NumVal(Strip(Take(header, 2))) < 3 THEN <<>>
    ELSE Strip(SubSeq(header, 3, Len(header)))

\* version = header & 0x0000ffff if tx_type else header; the whole header
\* again when tx_type is set and that version is below 3
PIVXVersion(header) ==
    IF Len(header) > 2 /\ NumVal(Strip(Take(header, 2))) >= 3
    THEN Strip(Take(header, 2))
    ELSE header

\* if version >= 3: the Sapling fields, and 2 more bytes if tx_type > 0
PIVXShielded(b, c, got) ==
    IF NumVal(PIVXVersion(got.header)) >= 3
    THEN Bind(_read_varint(b, c), LAMBDA any:
         Bind(_read_varint(b, Sat(any.cursor + 8)), LAMBDA spend:
         Bind(_read_varint(b, Sat(spend.cursor + Times(spend.val, 384))), LAMBDA out:
         Skip(out.cursor,
              Times(out.val, 948) + 64
              + (IF PIVXTxType(got.header) # <<>> THEN 2 ELSE 0)))))
    ELSE Return(c, <<>>)

\* if tx_version > 1: self.cursor += 32
ECCoinTail(b, c, got) == IF got.version > 1 THEN Skip(c, 32) ELSE Return(c, <<>>)

\* merkle_size = self._read_varint(); self.cursor += 32 * merkle_size;
\* self.cursor += 4
MerkleBranch(b, c) ==
    Bind(_read_varint(b, c), LAMBDA merkle_size:
    Skip(merkle_size.cursor, Times(merkle_size.val, 32) + 4))

ReadField(kind, b, c, got) ==
    CASE kind = "byte" -> _read_byte(b, c)
      [] kind = "nbytes32" -> _read_nbytes(b, c, 32)
      [] kind = "le_int32" -> _read_le_int32(b, c)
      [] kind = "le_int64" -> _read_le_int64(b, c)
      [] kind = "le_uint16" -> _read_le_uint16(b, c)
      [] kind = "le_uint32" -> _read_le_uint32(b, c)
      [] kind = "varbytes" -> _read_varbytes(b, c)
      [] kind = "inputs" -> _read_inputs(b, c)
      [] kind = "outputs" -> _read_outputs(b, c)
      [] kind = "witness" -> _read_witness(b, c, Len(got.inputs))
      [] kind = "flag_litecoin" -> LitecoinFlag(b, c)
      [] kind = "witness_litecoin" -> LitecoinWitness(b, c, got.flag, Len(got.inputs))
      [] kind = "mweb_litecoin" -> LitecoinMweb(b, c, got.flag)
      [] kind = "strDZeel" -> NavCoinStrDZeel(b, c, got.version)
      [] kind = "preblockhash" -> BitcoinDiamondPreblockhash(b, c, got.version)
      [] kind = "inputs_dcr" -> DeserializerDecred_read_inputs(b, c)
      [] kind = "outputs_dcr" -> DeserializerDecred_read_outputs(b, c)
      [] kind = "witness_dcr" -> DeserializerDecred_read_witness(b, c, Len(got.inputs))
      [] kind = "zcash_group" -> ZcashGroupId(b, c, got.header)
      [] kind = "zcash_head5" -> ZcashHeadV5(b, c, got)
      [] kind = "zcash_locktime" -> ZcashLocktime(b, c, got)
      [] kind = "zcash_expiry" -> ZcashExpiry(b, c, got)
      [] kind = "zcash_sapling" -> ZcashSapling(b, c, got)
      [] kind = "zcash_joinsplit" -> ZcashJoinsplit(b, c, got)
      [] kind = "zcash_binding" -> ZcashBindingSig(b, c, got)
      [] kind = "zcash_sapling5" -> ZcashSaplingV5(b, c, got)
      [] kind = "zcash_orchard5" -> ZcashOrchardV5(b, c, got)
      [] kind = "pivx_shielded" -> PIVXShielded(b, c, got)
      [] kind = "eccoin_tail" -> ECCoinTail(b, c, got)
      [] kind = "nbytes33" -> _read_nbytes(b, c, 33)
      [] kind = "nbytes3" -> _read_nbytes(b, c, 3)
      [] kind = "inputs_tokenpay" -> DeserializerTokenPay_read_inputs(b, c)
      [] kind = "inputs_zcoin" -> DeserializerZcoin_read_inputs(b, c)
      [] kind = "skip32" -> Skip(c, 32)
      [] kind = "skip80" -> Skip(c, 80)
      [] kind = "merkle" -> MerkleBranch(b, c)

Read(what, b, c, x) ==
    CASE what = "fields" -> ReadFields(b, c, x)
      [] what = "field" -> ReadField(x.kind, b, c, x.got)
      [] what = "items" -> ReadItems(b, c, x)
      [] what = "item" -> ReadItem(x.kind, b, c)

(***************************************************************************)
(* Deserializer: the legacy layout.                                        *)
(***************************************************************************)
TxLayout ==
    << <<"version", "le_int32">>, <<"inputs", "inputs">>, <<"outputs", "outputs">>,
       <<"locktime", "le_uint32">> >>

Deserializer_read_tx(b, c) ==
    Bind(Fields(b, c, TxLayout), LAMBDA f:
    Return(f.cursor, Tx(f.val.version, f.val.inputs, f.val.outputs, f.val.locktime)))

\* the tuple (tx, tx_hash, vsize) of the legacy branch of _read_tx_parts:
\* return tx, self.TX_HASH_FN(self.binary[start:self.cursor]), self.binary_length
LegacyParts(b, start_, tx, hash_fn) ==
    Return(tx.cursor,
           << tx.val, [fn |-> hash_fn, data |-> Slice(b, start_, tx.cursor)], Len(b) >>)

\* binary[self.cursor + off]: the cursor is left alone
Peek(b, c, off) ==
    IF c + off < Len(b) THEN Return(c, b[c + off + 1]) ELSE Raise(c, "IndexError")

(***************************************************************************)
(* DeserializerSegWit._read_tx_parts                                       *)
(***************************************************************************)
\* the same peeking at the byte after the marker
SegWitMarkerPeekLate(b, c) == Peek(b, c, 5)

\* marker = self.binary[self.cursor + 4]
SegWitMarkerPeek(b, c) == Peek(b, c, 4)

\* the same with the marker and flag bytes kept in the hashed bytes
SegWitOrigSerWithMarker(b, start_, after_version, io_start, io_end, lt_start, lt_end) ==
    Slice(b, start_, io_end) \o Slice(b, lt_start, lt_end)

\* orig_ser = version || inputs, outputs || locktime
SegWitOrigSer(b, start_, after_version, io_start, io_end, lt_start, lt_end) ==
    Slice(b, start_, after_version) \o Slice(b, io_start, io_end)
        \o Slice(b, lt_start, lt_end)

\* vsize = (3 * base_size + self.binary_length) // 4
SegWitVsize(b, base_size) == (3 * base_size + Len(b)) \div 4

TxSegWitLayout ==
    << <<"version", "le_int32">>, <<"marker", "byte">>, <<"flag", "byte">>,
       <<"inputs", "inputs">>, <<"outputs", "outputs">>, <<"witness", "witness">>,
       <<"locktime", "le_uint32">> >>

DeserializerSegWit_read_tx_parts(b, c, hash_fn) ==
    Bind(SegWitMarkerPeek(b, c), LAMBDA peeked:
    IF peeked.val # 0
    THEN Bind(Deserializer_read_tx(b, c), LAMBDA tx: LegacyParts(b, c, tx, hash_fn))
    ELSE Bind(Fields(b, c, TxSegWitLayout), LAMBDA f:
         Return(f.cursor,
                << TxSegWit(f.val.version, f.val.marker, f.val.flag, f.val.inputs,
                            f.val.outputs, f.val.witness, f.val.locktime),
                   [fn |-> hash_fn,
                    data |-> SegWitOrigSer(b, c, f.end.version, f.end.flag,
                                           f.end.outputs, f.end.witness,
                                           f.end.locktime)],
                   SegWitVsize(b, f.end.outputs - f.end.flag) >>)))

(***************************************************************************)
(* DeserializerLitecoin._read_tx_parts                                     *)
(***************************************************************************)
TxLitecoinLayout ==
    << <<"version", "le_int32">>, <<"marker", "byte">>, <<"flag", "flag_litecoin">>,
       <<"inputs", "inputs">>, <<"outputs", "outputs">>,
       <<"witness", "witness_litecoin">>, <<"mweb", "mweb_litecoin">>,
       <<"locktime", "le_uint32">> >>

DeserializerLitecoin_read_tx_parts(b, c, hash_fn) ==
    Bind(Peek(b, c, 4), LAMBDA peeked:
    IF peeked.val # 0
    THEN Bind(Deserializer_read_tx(b, c), LAMBDA tx: LegacyParts(b, c, tx, hash_fn))
    ELSE Bind(Fields(b, c, TxLitecoinLayout), LAMBDA f:
         Return(f.cursor,
                << TxSegWit(f.val.version, f.val.marker, f.val.flag, f.val.inputs,
                            f.val.outputs, f.val.witness, f.val.locktime),
                   [fn |-> hash_fn,
                    data |-> SegWitOrigSer(b, c, f.end.version, f.end.flag,
                                           f.end.outputs, f.end.mweb, f.end.locktime)],
                   SegWitVsize(b, f.end.outputs - f.end.flag) >>)))

(***************************************************************************)
(* DeserializerTxTime, DeserializerTxTimeSegWit and                        *)
(* DeserializerTxTimeSegWitNavCoin                                         *)
(***************************************************************************)
TxTime(version, time, inputs, outputs, locktime) ==
    [type |-> "TxTime", version |-> version, time |-> time, inputs |-> inputs,
     outputs |-> outputs, locktime |-> locktime]

TxTimeSegWit(version, time, marker, flag, inputs, outputs, witness, locktime) ==
    [type |-> "TxTimeSegWit", version |-> version, time |-> time,
     marker |-> marker, flag |-> flag, inputs |-> inputs, outputs |-> outputs,
     witness |-> witness, locktime |-> locktime]

TxTimeLayout ==
    << <<"version", "le_int32">>, <<"time", "le_uint32">>, <<"inputs", "inputs">>,
       <<"outputs", "outputs">>, <<"locktime", "le_uint32">> >>

DeserializerTxTime_read_tx(b, c) ==
    Bind(Fields(b, c, TxTimeLayout), LAMBDA f:
    Return(f.cursor, TxTime(f.val.version, f.val.time, f.val.inputs, f.val.outputs,
                            f.val.locktime)))

\* DeserializerTokenPay inherits DeserializerTxTime.read_tx
TokenPayLayout ==
    << <<"version", "le_int32">>, <<"time", "le_uint32">>,
       <<"inputs", "inputs_tokenpay">>, <<"outputs", "outputs">>,
       <<"locktime", "le_uint32">> >>

DeserializerTokenPay_read_tx(b, c) ==
    Bind(Fields(b, c, TokenPayLayout), LAMBDA f:
    Return(f.cursor, TxTime(f.val.version, f.val.time, f.val.inputs, f.val.outputs,
                            f.val.locktime)))

\* Deserializer.read_tx with DeserializerZcoin._read_input
ZcoinLayout ==
    << <<"version", "le_int32">>, <<"inputs", "inputs_zcoin">>,
       <<"outputs", "outputs">>, <<"locktime", "le_uint32">> >>

DeserializerZcoin_read_tx(b, c) ==
    Bind(Fields(b, c, ZcoinLayout), LAMBDA f:
    Return(f.cursor, Tx(f.val.version, f.val.inputs, f.val.outputs, f.val.locktime)))

\* the same peeking right after the version
TxTimeMarkerPeekEarly(b, c) == Peek(b, c, 4)

\* marker = self.binary[self.cursor + 8]
TxTimeMarkerPeek(b, c) == Peek(b, c, 8)

TxTimeSegWitLayout ==
    << <<"version", "le_int32">>, <<"time", "le_uint32">>, <<"marker", "byte">>,
       <<"flag", "byte">>, <<"inputs", "inputs">>, <<"outputs", "outputs">>,
       <<"witness", "witness">>, <<"locktime", "le_uint32">> >>

DeserializerTxTimeSegWit_read_tx_parts(b, c, hash_fn) ==
    Bind(TxTimeMarkerPeek(b, c), LAMBDA peeked:
    IF peeked.val # 0
    THEN Bind(DeserializerTxTime_read_tx(b, c), LAMBDA tx: LegacyParts(b, c, tx, hash_fn))
    ELSE Bind(Fields(b, c, TxTimeSegWitLayout), LAMBDA f:
         Return(f.cursor,
                << TxTimeSegWit(f.val.version, f.val.time, f.val.marker, f.val.flag,
                                f.val.inputs, f.val.outputs, f.val.witness,
                                f.val.locktime),
                   [fn |-> hash_fn,
                    data |-> SegWitOrigSer(b, c, f.end.time, f.end.flag,
                                           f.end.outputs, f.end.witness,
                                           f.end.locktime)],
                   SegWitVsize(b, f.end.outputs - f.end.flag) >>)))

DeserializerTxTimeSegWitNavCoin_read_tx_no_segwit(b, c) ==
    Bind(Fields(b, c, TxTimeLayout \o << <<"strDZeel", "strDZeel">> >>), LAMBDA f:
    Return(f.cursor, TxTime(f.val.version, f.val.time, f.val.inputs, f.val.outputs,
                            f.val.locktime)))

\* the hashed bytes run from the locktime to the end of strDZeel
DeserializerTxTimeSegWitNavCoin_read_tx_parts(b, c, hash_fn) ==
    Bind(Peek(b, c, 8), LAMBDA peeked:
    IF peeked.val # 0
    THEN Bind(DeserializerTxTimeSegWitNavCoin_read_tx_no_segwit(b, c), LAMBDA tx:
         LegacyParts(b, c, tx, hash_fn))
    ELSE Bind(Fields(b, c, TxTimeSegWitLayout \o << <<"strDZeel", "strDZeel">> >>),
         LAMBDA f:
         Return(f.cursor,
                << TxTimeSegWit(f.val.version, f.val.time, f.val.marker, f.val.flag,
                                f.val.inputs, f.val.outputs, f.val.witness,
                                f.val.locktime),
                   [fn |-> hash_fn,
                    data |-> SegWitOrigSer(b, c, f.end.time, f.end.flag,
                                           f.end.outputs, f.end.witness,
                                           f.end.strDZeel)],
                   SegWitVsize(b, f.end.outputs - f.end.flag) >>)))

(***************************************************************************)
(* DeserializerBitcoinDiamond and DeserializerBitcoinDiamondSegWit         *)
(***************************************************************************)
TxBitcoinDiamond(version, preblockhash, inputs, outputs, locktime) ==
    [type |-> "TxBitcoinDiamond", version |-> version,
     preblockhash |-> preblockhash, inputs |-> inputs, outputs |-> outputs,
     locktime |-> locktime]

TxBitcoinDiamondSegWit(version, preblockhash, marker, flag, inputs, outputs, witness, locktime) ==
    [type |-> "TxBitcoinDiamondSegWit", version |-> version,
     preblockhash |-> preblockhash, marker |-> marker, flag |-> flag,
     inputs |-> inputs, outputs |-> outputs, witness |-> witness,
     locktime |-> locktime]

\* unpack_le_int32_from(self.binary, self.cursor), the cursor left alone
_get_version(b, c) ==
    LET u == unpack_le_int32_from(b, c)
    IN  IF u.err # "" THEN Raise(c, u.err) ELSE Return(c, u.val)

TxBitcoinDiamondLayout ==
    << <<"version", "le_int32">>, <<"preblockhash", "preblockhash">>,
       <<"inputs", "inputs">>, <<"outputs", "outputs">>, <<"locktime", "le_uint32">> >>

\* the version peeked and the version read are the same four bytes
DeserializerBitcoinDiamond_read_tx(b, c) ==
    Bind(_get_version(b, c), LAMBDA version:
    Bind(Fields(b, c, TxBitcoinDiamondLayout), LAMBDA f:
    IF version.val # bitcoin_diamond_tx_version
    THEN Return(f.cursor, Tx(f.val.version, f.val.inputs, f.val.outputs,
                             f.val.locktime))
    ELSE Return(f.cursor, TxBitcoinDiamond(f.val.version, f.val.preblockhash,
                                           f.val.inputs, f.val.outputs,
                                           f.val.locktime))))

\* the same peeking right after the version whatever the version
BitcoinDiamondMarkerPeek_after_version(b, c, tx_version) == Peek(b, c, 4)

\* marker = self.binary[self.cursor + 4 + 32] for version 12, else at + 4
BitcoinDiamondMarkerPeek(b, c, tx_version) ==
    IF tx_version = bitcoin_diamond_tx_version THEN Peek(b, c, 4 + 32)
    ELSE Peek(b, c, 4)

TxBitcoinDiamondSegWitLayout ==
    << <<"version", "le_int32">>, <<"preblockhash", "preblockhash">>,
       <<"marker", "byte">>, <<"flag", "byte">>, <<"inputs", "inputs">>,
       <<"outputs", "outputs">>, <<"witness", "witness">>,
       <<"locktime", "le_uint32">> >>

DeserializerBitcoinDiamondSegWit_read_tx_parts(b, c, hash_fn) ==
    Bind(_get_version(b, c), LAMBDA tx_version:
    Bind(BitcoinDiamondMarkerPeek(b, c, tx_version.val), LAMBDA peeked:
    IF peeked.val # 0
    THEN Bind(DeserializerBitcoinDiamond_read_tx(b, c), LAMBDA tx:
         LegacyParts(b, c, tx, hash_fn))
    ELSE Bind(Fields(b, c, TxBitcoinDiamondSegWitLayout), LAMBDA f:
         Return(f.cursor,
                << IF f.val.preblockhash # None
                   THEN TxBitcoinDiamondSegWit(f.val.version, f.val.preblockhash,
                                               f.val.marker, f.val.flag, f.val.inputs,
                                               f.val.outputs, f.val.witness,
                                               f.val.locktime)
                   ELSE TxSegWit(f.val.version, f.val.marker, f.val.flag, f.val.inputs,
                                 f.val.outputs, f.val.witness, f.val.locktime),
                   [fn |-> hash_fn,
                    data |-> SegWitOrigSer(b, c, f.end.preblockhash, f.end.flag,
                                           f.end.outputs, f.end.witness,
                                           f.end.locktime)],
                   SegWitVsize(b, f.end.outputs - f.end.flag) >>))))

(***************************************************************************)
(* DeserializerDecred                                                      *)
(***************************************************************************)
TxDcr(version, inputs, outputs, locktime, expiry, witness) ==
    [type |-> "TxDcr", version |-> version, inputs |-> inputs,
     outputs |-> outputs, locktime |-> locktime, expiry |-> expiry,
     witness |-> witness]

blake256(data) == [fn |-> "blake256", data |-> data]

\* blake_hash(blake_hash(data))
blake256d(data) == [fn |-> "blake256d", data |-> data]

\* the same keeping the version word of the buffer
DecredPrefixTx_whole_version(b, start_, version, end_prefix) ==
    Slice(b, start_, end_prefix)

\* pack_le_uint32(0x10000 | (version & 0xffff)) + self.binary[start+4:end_prefix]
DecredPrefixTx(b, start_, version, end_prefix) ==
    pack_le_uint32(ToNum(65536 + (version % 65536))) \o Slice(b, start_ + 4, end_prefix)

\* the same with the double-round hash
DeserializerDecred_tx_hash_double(prefix_tx) == blake256d(prefix_tx)

\* tx_hash = self.blake256(prefix_tx)
DeserializerDecred_tx_hash(prefix_tx) == blake256(prefix_tx)

TxDcrLayout ==
    << <<"version", "le_int32">>, <<"inputs", "inputs_dcr">>,
       <<"outputs", "outputs_dcr">>, <<"locktime", "le_uint32">>,
       <<"expiry", "le_uint32">>, <<"witness", "witness_dcr">> >>

DeserializerDecred_read_tx_parts(b, c, produce_hash) ==
    Bind(Fields(b, c, TxDcrLayout), LAMBDA f:
    Return(f.cursor,
           << TxDcr(f.val.version, f.val.inputs, f.val.outputs, f.val.locktime,
                    f.val.expiry, f.val.witness),
              IF produce_hash
              THEN DeserializerDecred_tx_hash(
                       DecredPrefixTx(b, c, f.val.version, f.end.expiry))
              ELSE None,
              f.cursor - c >>))

(***************************************************************************)
(* DeserializerZcash, DeserializerPIVX and DeserializerECCoin               *)
(***************************************************************************)
ZcashLayout ==
    << <<"header", "le_uint32">>, <<"group", "zcash_group">>,
       <<"head5", "zcash_head5">>, <<"inputs", "inputs">>, <<"outputs", "outputs">>,
       <<"locktime", "zcash_locktime">>, <<"expiry", "zcash_expiry">>,
       <<"sapling", "zcash_sapling">>, <<"joinsplit", "zcash_joinsplit">>,
       <<"binding", "zcash_binding">>, <<"sapling5", "zcash_sapling5">>,
       <<"orchard5", "zcash_orchard5">> >>

DeserializerZcash_read_tx(b, c) ==
    Bind(Fields(b, c, ZcashLayout), LAMBDA f:
    Return(f.cursor, Tx(ZcashVersion(f.val.header), f.val.inputs, f.val.outputs,
                        f.val.locktime)))

\* the NU5 transaction digest of electrumx.lib.zcash
zcash_txid_v5(txin) == [fn |-> "zcash_txid_v5", data |-> txin]

\* if (_tx.version < 5): double_sha256(...) else: self.zcash_txid_v5(...)
DeserializerZcash_txhash(b, c, tx) ==
    IF tx.val.version < 5 THEN double_sha256(Slice(b, c, tx.cursor))
    ELSE zcash_txid_v5(Slice(b, c, tx.cursor))

DeserializerZcash_read_tx_and_hash(b, c) ==
    Bind(DeserializerZcash_read_tx(b, c), LAMBDA tx:
    Return(tx.cursor, <<tx.val, DeserializerZcash_txhash(b, c, tx)>>))

TxPIVX(version, txtype, inputs, outputs, locktime) ==
    [type |-> "TxPIVX", version |-> version, txtype |-> txtype, inputs |-> inputs,
     outputs |-> outputs, locktime |-> locktime]

\* TxPIVX.serialize: pack_le_uint16 is struct.pack('<H', n), which raises
\* struct.error for n above 65535
TxPIVX_serialize(tx) ==
    IF Len(tx.version) > 2 \/ Len(tx.txtype) > 2 THEN Raise(0, "struct.error")
    ELSE Return(0, Join(<< pack_le_uint16(tx.version),
                           pack_le_uint16(tx.txtype),
                           pack_varint(ToNum(Len(tx.inputs))),
                           Join([i \in 1..Len(tx.inputs) |-> TxInput_serialize(tx.inputs[i])]),
                           pack_varint(ToNum(Len(tx.outputs))),
                           Join([i \in 1..Len(tx.outputs) |-> TxOutput_serialize(tx.outputs[i])]),
                           pack_le_uint32(tx.locktime) >>))

PIVXLayout ==
    << <<"header", "le_uint32">>, <<"inputs", "inputs">>, <<"outputs", "outputs">>,
       <<"locktime", "le_uint32">>, <<"shielded", "pivx_shielded">> >>

DeserializerPIVX_read_tx(b, c) ==
    Bind(Fields(b, c, PIVXLayout), LAMBDA f:
    Return(f.cursor, TxPIVX(PIVXVersion(f.val.header), PIVXTxType(f.val.header),
                            f.val.inputs, f.val.outputs, f.val.locktime)))

ECCoinLayout ==
    << <<"version", "le_int32">>, <<"time", "le_uint32">>, <<"inputs", "inputs">>,
       <<"outputs", "outputs">>, <<"locktime", "le_uint32">>,
       <<"tail", "eccoin_tail">> >>

DeserializerECCoin_read_tx(b, c) ==
    Bind(Fields(b, c, ECCoinLayout), LAMBDA f:
    Return(f.cursor, TxTime(f.val.version, f.val.time, f.val.inputs, f.val.outputs,
                            f.val.locktime)))

(***************************************************************************)
(* The state: one Deserializer (its class cls, binary, cursor) and the     *)
(* outcome of the last call made on it or on the value it returned: the    *)
(* method (op), its argument or receiver (arg), the cursor                 *)
(* at entry (start), the value returned (ret) and the exception raised     *)
(* (err, "" when the call returned).  An exception propagates to the       *)
(* caller, who drops the Deserializer: no further call is made on it.      *)
(***************************************************************************)
Call(name, a, r) ==
    /\ err = ""
    /\ op' = name
    /\ arg' = a
    /\ start' = cursor
    /\ cursor' = r.cursor
    /\ ret' = r.val
    /\ err' = r.err
    /\ UNCHANGED <<cls, binary, peer>>

\* a second Deserializer over the same buffer, constructed at position c: its
\* cursor and the outcome of the last call made on it
Instance(c) == [cursor |-> c, op |-> "__init__", start |-> c, ret |-> <<>>, err |-> ""]

\* k(binary, start) for a Deserializer class k
Construct(k, b, c) ==
    /\ cls = k
    /\ binary = b
    /\ cursor = c
    /\ op = "__init__"
    /\ arg = <<>>
    /\ start = c
    /\ ret = <<>>
    /\ err = ""
    /\ peer = Instance(c)

(***************************************************************************)
(* Primitive reads over short buffers: a varint followed by a few bytes,   *)
(* cut at every length.                                                    *)
(***************************************************************************)
U32Max == Rep(255, 4)

U64Max == Rep(255, 8)

BoundaryValues ==
    { ToNum(0), ToNum(1), ToNum(252), ToNum(253), ToNum(254), ToNum(255),
      ToNum(65535), ToNum(65536), U32Max, <<0, 0, 0, 0, 1>>, U64Max }

NonMinimalVarints ==
    { <<253, 1, 0>>, <<254, 1, 0, 0, 0>>, <<255, 1, 0, 0, 0, 0, 0, 0, 0>>,
      <<253, 252, 0>>, <<254, 255, 255, 0, 0>> }

VarintSamples == { pack_varint(v) : v \in BoundaryValues } \cup NonMinimalVarints

ReadTails ==
    { <<>>, <<2, 170, 187>>, <<1, 0, 0, 0, 0, 0, 0, 128, 7>> }

ReadBuffers ==
    { Take(v \o t, k) : v \in VarintSamples, t \in ReadTails, k \in 0..MaxReadLen }

InitReads ==
    \E b \in ReadBuffers : \E c \in 0..Min(MaxStart, Len(b)) : Construct("Deserializer", b, c)

ReadByte == Call("_read_byte", <<>>, _read_byte(binary, cursor))

ReadNBytes == \E n \in 0..MaxNBytes : Call("_read_nbytes", n, _read_nbytes(binary, cursor, n))

ReadVarbytes == Call("_read_varbytes", <<>>, _read_varbytes(binary, cursor))

ReadVarint == Call("_read_varint", <<>>, _read_varint(binary, cursor))

ReadLeInt32 == Call("_read_le_int32", <<>>, _read_le_int32(binary, cursor))

ReadLeInt64 == Call("_read_le_int64", <<>>, _read_le_int64(binary, cursor))

ReadLeUint16 == Call("_read_le_uint16", <<>>, _read_le_uint16(binary, cursor))

ReadBeUint16 == Call("_read_be_uint16", <<>>, _read_be_uint16(binary, cursor))

ReadLeUint32 == Call("_read_le_uint32", <<>>, _read_le_uint32(binary, cursor))

ReadLeUint64 == Call("_read_le_uint64", <<>>, _read_le_uint64(binary, cursor))

NextReads ==
    \/ ReadByte
    \/ ReadNBytes
    \/ ReadVarbytes
    \/ ReadVarint
    \/ ReadLeInt32
    \/ ReadLeInt64
    \/ ReadLeUint16
    \/ ReadBeUint16
    \/ ReadLeUint32
    \/ ReadLeUint64

SpecReads == InitReads /\ [][NextReads]_vars

(***************************************************************************)
(* The decode entry points, resolved along each class's method resolution  *)
(* order.                                                                  *)
(***************************************************************************)
SegWitFamily ==
    { "DeserializerSegWit", "DeserializerLitecoin", "DeserializerTxTimeSegWit",
      "DeserializerTxTimeSegWitNavCoin", "DeserializerBitcoinDiamondSegWit" }

Classes == {"Deserializer", "DeserializerDecred"} \cup SegWitFamily

\* TX_HASH_FN = staticmethod(double_sha256)
TX_HASH_FN(k) == "double_sha256"

_read_tx_parts(k, b, c) ==
    CASE k = "DeserializerSegWit" ->
            DeserializerSegWit_read_tx_parts(b, c, TX_HASH_FN(k))
      [] k = "DeserializerLitecoin" ->
            DeserializerLitecoin_read_tx_parts(b, c, TX_HASH_FN(k))
      [] k = "DeserializerTxTimeSegWit" ->
            DeserializerTxTimeSegWit_read_tx_parts(b, c, TX_HASH_FN(k))
      [] k = "DeserializerTxTimeSegWitNavCoin" ->
            DeserializerTxTimeSegWitNavCoin_read_tx_parts(b, c, TX_HASH_FN(k))
      [] k = "DeserializerBitcoinDiamondSegWit" ->
            DeserializerBitcoinDiamondSegWit_read_tx_parts(b, c, TX_HASH_FN(k))

\* the components idx of the tuple a call returns
Pick(r, idx) ==
    IF r.err # "" THEN r
    ELSE Return(r.cursor, [i \in 1..Len(idx) |-> r.val[idx[i]]])

First(r) == IF r.err # "" THEN r ELSE Return(r.cursor, r.val[1])

read_tx(k, b, c) ==
    CASE k = "Deserializer" -> Deserializer_read_tx(b, c)
      [] k = "DeserializerDecred" -> First(DeserializerDecred_read_tx_parts(b, c, FALSE))
      [] k \in SegWitFamily -> First(_read_tx_parts(k, b, c))

\* the same hashing the whole buffer from the start position on
Deserializer_read_tx_and_hash_to_end(b, c, hash_fn) ==
    LET tx == Deserializer_read_tx(b, c)
    IN  IF tx.err # "" THEN tx
        ELSE Return(tx.cursor,
                    <<tx.val, [fn |-> hash_fn, data |-> Slice(b, c, Len(b))]>>)

\* start = self.cursor; return self.read_tx(), self.TX_HASH_FN(self.binary[start:self.cursor])
Deserializer_read_tx_and_hash(b, c, hash_fn) ==
    LET tx == Deserializer_read_tx(b, c)
    IN  IF tx.err # "" THEN tx
        ELSE Return(tx.cursor,
                    <<tx.val, [fn |-> hash_fn, data |-> Slice(b, c, tx.cursor)]>>)

read_tx_and_hash(k, b, c) ==
    CASE k = "Deserializer" -> Deserializer_read_tx_and_hash(b, c, TX_HASH_FN(k))
      [] k = "DeserializerDecred" ->
            Pick(DeserializerDecred_read_tx_parts(b, c, TRUE), <<1, 2>>)
      [] k \in SegWitFamily -> Pick(_read_tx_parts(k, b, c), <<1, 2>>)

\* return self.read_tx(), self.binary_length
Deserializer_read_tx_and_vsize(b, c) ==
    LET tx == Deserializer_read_tx(b, c)
    IN  IF tx.err # "" THEN tx ELSE Return(tx.cursor, <<tx.val, Len(b)>>)

read_tx_and_vsize(k, b, c) ==
    CASE k = "Deserializer" -> Deserializer_read_tx_and_vsize(b, c)
      [] k = "DeserializerDecred" ->
            Pick(DeserializerDecred_read_tx_parts(b, c, FALSE), <<1, 3>>)
      [] k \in SegWitFamily -> Pick(_read_tx_parts(k, b, c), <<1, 3>>)

(***************************************************************************)
(* read_tx_block: the transactions of a block with their ids.              *)
(***************************************************************************)
BlockClasses == {"Deserializer", "DeserializerDecred"}

\* read = self.read_tx_and_hash
Block_read_tx_and_hash(k, b, c) ==
    CASE k = "Deserializer" -> Deserializer_read_tx_and_hash(b, c, TX_HASH_FN(k))
      [] k = "DeserializerDecred" ->
            Pick(DeserializerDecred_read_tx_parts(b, c, TRUE), <<1, 2>>)

\* [read() for _ in range(n)]: acc holds the pairs read so far
RECURSIVE ReadTxs(_, _, _, _, _)
ReadTxs(k, b, c, n, acc) ==
    IF ToNum(Len(acc)) = n THEN Return(c, acc)
    ELSE Bind(Block_read_tx_and_hash(k, b, c), LAMBDA r:
         ReadTxs(k, b, r.cursor, n, Append(acc, r.val)))

\* [read() for _ in range(self._read_varint())]
TxList(k, b, c) ==
    Bind(_read_varint(b, c), LAMBDA n: ReadTxs(k, b, n.cursor, n.val, <<>>))

Deserializer_read_tx_block(b, c) == TxList("Deserializer", b, c)

\* the same returning the stake transactions first
DeserializerDecred_read_tx_block_stake_first(b, c) ==
    Bind(TxList("DeserializerDecred", b, c), LAMBDA txs:
    Bind(TxList("DeserializerDecred", b, txs.cursor), LAMBDA stxs:
    Return(stxs.cursor, stxs.val \o txs.val)))

\* txs, then stxs; return txs + stxs
DeserializerDecred_read_tx_block(b, c) ==
    Bind(TxList("DeserializerDecred", b, c), LAMBDA txs:
    Bind(TxList("DeserializerDecred", b, txs.cursor), LAMBDA stxs:
    Return(stxs.cursor, txs.val \o stxs.val)))

read_tx_block(k, b, c) ==
    CASE k = "Deserializer" -> Deserializer_read_tx_block(b, c)
      [] k = "DeserializerDecred" -> DeserializerDecred_read_tx_block(b, c)

(***************************************************************************)
(* read_tx and read_tx_and_hash of the decoders that skip fields, and      *)
(* read_tx of the classes that extract block headers.                      *)
(***************************************************************************)
ForkClasses ==
    {"DeserializerZcash", "DeserializerPIVX", "DeserializerECCoin", "DeserializerZcoin"}

\* Deserializer.read_tx_and_hash around the read_tx of a subclass: tx is
\* what self.read_tx() gave from position c
Deserializer_hashed(b, c, tx, hash_fn) ==
    IF tx.err # "" THEN tx
    ELSE Return(tx.cursor, <<tx.val, [fn |-> hash_fn, data |-> Slice(b, c, tx.cursor)]>>)

Fork_read_tx(k, b, c) ==
    CASE k = "DeserializerZcash" -> DeserializerZcash_read_tx(b, c)
      [] k = "DeserializerPIVX" -> DeserializerPIVX_read_tx(b, c)
      [] k = "DeserializerECCoin" -> DeserializerECCoin_read_tx(b, c)
      [] k = "DeserializerZcoin" -> DeserializerZcoin_read_tx(b, c)

\* DeserializerPIVX, DeserializerECCoin and DeserializerZcoin inherit
\* Deserializer.read_tx_and_hash
Fork_read_tx_and_hash(k, b, c) ==
    CASE k = "DeserializerZcash" -> DeserializerZcash_read_tx_and_hash(b, c)
      [] k = "DeserializerPIVX" ->
            Deserializer_hashed(b, c, DeserializerPIVX_read_tx(b, c), TX_HASH_FN(k))
      [] k = "DeserializerECCoin" ->
            Deserializer_hashed(b, c, DeserializerECCoin_read_tx(b, c), TX_HASH_FN(k))
      [] k = "DeserializerZcoin" ->
            Deserializer_hashed(b, c, DeserializerZcoin_read_tx(b, c), TX_HASH_FN(k))

\* DeserializerAuxPow, DeserializerEquihash and DeserializerPrimecoin inherit
\* Deserializer.read_tx, DeserializerXaya that of DeserializerSegWit and
\* DeserializerEmercoin that of DeserializerTxTimeSegWit
Header_read_tx(k, b, c) ==
    CASE k = "DeserializerXaya" ->
            First(DeserializerSegWit_read_tx_parts(b, c, TX_HASH_FN(k)))
      [] k = "DeserializerEmercoin" ->
            First(DeserializerTxTimeSegWit_read_tx_parts(b, c, TX_HASH_FN(k)))
      [] OTHER -> Deserializer_read_tx(b, c)

(***************************************************************************)
(* The block header extractors: the length of the header is found by a     *)
(* walk over the buffer, then the header is read as bytes from the start.  *)
(***************************************************************************)
VERSION_AUXPOW == 256

MM_FLAG == 128

\* version & self.VERSION_AUXPOW
HasAuxPow(version) == Len(version) >= 2 /\ version[2] % 2 = 1

\* the walk without the parent block header
AuxPowLayout_no_parent_header ==
    << <<"parent_hash", "skip32">>, <<"branch", "merkle">>, <<"chain", "merkle">> >>

\* the walk over a CAuxPow after its transaction: parent block hash,
\* Merkle branch and index, chain Merkle branch and index, parent block header
AuxPowLayout ==
    << <<"parent_hash", "skip32">>, <<"branch", "merkle">>, <<"chain", "merkle">>,
       <<"parent_header", "skip80">> >>

\* self.read_tx() and the walk; the cursor of the result is the end
AuxPowWalk(k, b, c) ==
    Bind(Header_read_tx(k, b, c), LAMBDA tx:
    Fields(b, tx.cursor, AuxPowLayout))

DeserializerAuxPow_read_auxpow(k, b, c) ==
    Bind(AuxPowWalk(k, b, c), LAMBDA end:
    _read_nbytes(b, c, end.cursor - c))

DeserializerAuxPow_read_header(k, b, c, static_header_size) ==
    Bind(_read_le_uint32(b, c), LAMBDA version:
    IF HasAuxPow(version.val)
    THEN Bind(DeserializerAuxPow_read_auxpow(k, b, Sat(c + static_header_size)),
              LAMBDA auxpow: _read_nbytes(b, c, auxpow.cursor - c))
    ELSE _read_nbytes(b, c, static_header_size))

\* return self._read_nbytes(header_end)
DeserializerEquihash_read_header(b, c, static_header_size) ==
    Bind(_read_varint(b, Sat(c + static_header_size)), LAMBDA solution_size:
    _read_nbytes(b, c, Sat(solution_size.cursor + NumVal(solution_size.val))))

\* return self._read_nbytes(header_end - start)
DeserializerPrimecoin_read_header(b, c, static_header_size) ==
    Bind(_read_varint(b, Sat(c + static_header_size)), LAMBDA multiplier_size:
    _read_nbytes(b, c, Sat(multiplier_size.cursor + NumVal(multiplier_size.val)) - c))

\* the version is read at position 0 and the cursor put back
DeserializerEmercoin_is_merged_block(b, c) ==
    Bind(_read_le_uint32(b, 0), LAMBDA version:
    Return(c, HasAuxPow(version.val)))

\* header_end is the cursor after the walk, or static_header_size;
\* return self._read_nbytes(header_end)
DeserializerEmercoin_read_header(k, b, c, static_header_size) ==
    Bind(_read_le_uint32(b, c), LAMBDA version:
    IF HasAuxPow(version.val)
    THEN Bind(AuxPowWalk(k, b, Sat(c + static_header_size)), LAMBDA end:
         _read_nbytes(b, c, end.cursor))
    ELSE _read_nbytes(b, c, static_header_size))

\* if algo & self.MM_FLAG: self.read_auxpow() else: the fake header
XayaPowData(k, b, c, algo, static_header_size) ==
    IF algo >= MM_FLAG THEN DeserializerAuxPow_read_auxpow(k, b, c)
    ELSE Skip(c, static_header_size)

DeserializerXaya_read_header(k, b, c, static_header_size) ==
    Bind(_read_byte(b, Sat(c + static_header_size)), LAMBDA algo:
    Bind(_read_le_uint32(b, algo.cursor), LAMBDA nBits:
    Bind(XayaPowData(k, b, nBits.cursor, algo.val, static_header_size), LAMBDA end:
    _read_nbytes(b, c, end.cursor - c))))

AuxPowClasses == {"DeserializerAuxPow", "DeserializerXaya"}

HeaderClasses ==
    AuxPowClasses
    \cup {"DeserializerEquihash", "DeserializerPrimecoin", "DeserializerEmercoin"}

read_header(k, b, c, static_header_size) ==
    CASE k = "DeserializerAuxPow" -> DeserializerAuxPow_read_header(k, b, c, static_header_size)
      [] k = "DeserializerEquihash" -> DeserializerEquihash_read_header(b, c, static_header_size)
      [] k = "DeserializerPrimecoin" -> DeserializerPrimecoin_read_header(b, c, static_header_size)
      [] k = "DeserializerEmercoin" -> DeserializerEmercoin_read_header(k, b, c, static_header_size)
      [] k = "DeserializerXaya" -> DeserializerXaya_read_header(k, b, c, static_header_size)

\* tx.serialize() on what the decoders above return: among their classes
\* only Tx defines it (TxPIVX has its own, TxPIVX_serialize)
serialize(tx) ==
    IF tx.type = "Tx" THEN Return(0, Tx_serialize(tx)) ELSE Raise(0, "AttributeError")

\* tx_in.is_generation() of the input classes the decoders return
is_generation(tx_in) ==
    CASE tx_in.type = "TxInputDcr" -> TxInputDcr_is_generation(tx_in)
      [] tx_in.type = "TxInputTokenPay" ->
            _is_anon_input(tx_in) \/ TxInput_is_generation(tx_in)
      [] tx_in.type = "TxInputTokenPayStealth" -> TRUE
      [] OTHER -> TxInput_is_generation(tx_in)

(***************************************************************************)
(* The buffers given to the transaction decoders: transactions built from  *)
(* a few inputs, outputs and witness stacks in each layout, alone, cut     *)
(* short, and between other bytes.                                         *)
(***************************************************************************)
InputPool ==
    << [prev_hash |-> ZERO, prev_idx |-> MINUS_1, script |-> <<>>,
        sequence |-> MINUS_1],
       [prev_hash |-> Rep(17, 32), prev_idx |-> ToNum(0), script |-> <<81, 82>>,
        sequence |-> ToNum(65534)],
       [prev_hash |-> ZERO, prev_idx |-> ToNum(1), script |-> <<>>,
        sequence |-> ToNum(0)],
       [prev_hash |-> Zeros(31) \o <<1>>, prev_idx |-> MINUS_1, script |-> <<7>>,
        sequence |-> MINUS_1] >>

OutputPool ==
    << [value |-> [neg |-> FALSE, mag |-> <<0, 242, 5, 42, 1>>], pk_script |-> <<81>>],
       [value |-> [neg |-> TRUE, mag |-> <<1>>], pk_script |-> <<>>] >>

WitnessPool == << <<>>, << <<7>> >>, << <<>>, <<8, 9>> >> >>

\* the runs of at most n consecutive elements of a pool
Windows(pool, n) ==
    { SubSeq(pool, w[1], w[1] + w[2] - 1) :
         w \in { v \in (1..Len(pool)) \X (0..n) : v[1] + v[2] - 1 <= Len(pool) } }

\* a count or a length, in its smallest form or in the 3-byte form
EncVarint(n, minimal) ==
    IF minimal THEN pack_varint(ToNum(n)) ELSE <<253>> \o pack_le_uint16(ToNum(n))

EncBytes(x, minimal) == EncVarint(Len(x), minimal) \o x

EncInput(i, minimal) ==
    i.prev_hash \o pack_le_uint32(i.prev_idx) \o EncBytes(i.script, minimal)
        \o pack_le_uint32(i.sequence)

EncInputDcr(i) ==
    i.prev_hash \o pack_le_uint32(i.prev_idx) \o <<Len(i.script)>>
        \o pack_le_uint32(i.sequence)

EncOutput(o, minimal) == pack_le_int64(o.value) \o EncBytes(o.pk_script, minimal)

EncOutputDcr(o) ==
    pack_le_int64(o.value) \o <<0, 0>> \o EncBytes(o.pk_script, TRUE)

EncStack(st, minimal) ==
    EncVarint(Len(st), minimal) \o Join([i \in 1..Len(st) |-> EncBytes(st[i], minimal)])

\* the witness stack given to input i: empty for all (wsel 0), or the pool
\* in turn
StackOf(i, wsel) == IF wsel = 0 THEN <<>> ELSE WitnessPool[(i % Len(WitnessPool)) + 1]

\* one stack per input, or no witness section at all (wsel 2)
EncWitness(n, wsel, minimal) ==
    IF wsel = 2 THEN <<>>
    ELSE Join([i \in 1..n |-> EncStack(StackOf(i, wsel), minimal)])

EncWitnessDcr(n) ==
    Join([i \in 1..n |-> pack_le_int64(OutputPool[1].value) \o pack_le_uint32(ToNum(i))
                            \o pack_le_uint32(ToNum(0)) \o EncBytes(Rep(i, i), TRUE)])

\* inputs and outputs with their counts
EncInsOuts(ins, outs, minimal) ==
    EncVarint(Len(ins), minimal)
        \o Join([i \in 1..Len(ins) |-> EncInput(ins[i], minimal)])
        \o EncVarint(Len(outs), minimal)
        \o Join([i \in 1..Len(outs) |-> EncOutput(outs[i], minimal)])

Locktime == <<9, 0, 0, 0>>

TimeField == <<3, 2, 1, 0>>

\* the legacy layout, with the fields pre put between version and inputs
EncLegacy(version, pre, ins, outs, minimal) ==
    pack_le_int32(version) \o pre \o EncInsOuts(ins, outs, minimal) \o Locktime

\* the SegWit layout with the given flag byte; post precedes the locktime
EncSegWit(version, pre, flag, ins, outs, wsel, post, minimal) ==
    pack_le_int32(version) \o pre \o <<0, flag>> \o EncInsOuts(ins, outs, minimal)
        \o EncWitness(Len(ins), wsel, minimal) \o post \o Locktime

\* the Decred layout with the witness count wcount
EncDcr(version, ins, outs, wcount) ==
    pack_le_int32(version)
        \o EncVarint(Len(ins), TRUE)
        \o Join([i \in 1..Len(ins) |-> EncInputDcr(ins[i])])
        \o EncVarint(Len(outs), TRUE)
        \o Join([i \in 1..Len(outs) |-> EncOutputDcr(outs[i])])
        \o Locktime \o <<0, 0, 0, 0>>
        \o EncVarint(wcount, TRUE) \o EncWitnessDcr(wcount)

InputLists == Windows(InputPool, MaxInputs)

OutputLists == Windows(OutputPool, MaxOutputs)

\* the validly constructed legacy transactions over the pools: every count
\* and length in its smallest form
ValidLegacyTxs(version, pre) ==
    { EncLegacy(version, pre, ins, outs, TRUE) : ins \in InputLists, outs \in OutputLists }

\* the same with, besides, every count and length in the 3-byte form
LegacyTxs(version, pre) ==
    ValidLegacyTxs(version, pre)
    \cup { EncLegacy(version, pre, ins, <<OutputPool[1]>>, FALSE) : ins \in InputLists }

\* the validly constructed SegWit transactions with a witness stack per input
ValidSegWitTxs(version, pre) ==
    { EncSegWit(version, pre, 1, ins, outs, wsel, <<>>, TRUE) :
          ins \in InputLists, outs \in OutputLists, wsel \in {0, 1} }

SegWitTxs(version, pre, flags, posts) ==
    ValidSegWitTxs(version, pre)
    \cup { EncSegWit(version, pre, f, ins, outs, 1, post, TRUE) :
          f \in flags, ins \in InputLists, outs \in OutputLists, post \in posts }
    \cup { EncSegWit(version, pre, 1, ins, <<OutputPool[1]>>, wsel, <<>>, FALSE) :
          ins \in InputLists, wsel \in {0, 1} }

\* Litecoin transactions without a witness section: the witness bit unset,
\* the MWEB bit set or not, a zero or nonzero byte or nothing before the
\* locktime
MwebTxs ==
    { EncSegWit(2, <<>>, f, ins, outs, 2, post, TRUE) :
          f \in {2, 8, 10}, ins \in InputLists, outs \in OutputLists,
          post \in {<<>>, <<0>>, <<5>>} }

\* version 1, one generation input with an empty script, one output of
\* 5000000000 with a 1-byte script, locktime 0
MinimalCoinbase ==
    pack_le_int32(1) \o EncInsOuts(<<InputPool[1]>>, <<OutputPool[1]>>, TRUE)
        \o <<0, 0, 0, 0>>

\* the transactions given to a Deserializer of class k
TxsOf(k) ==
    CASE k = "Deserializer" ->
            LegacyTxs(1, <<>>) \cup LegacyTxs(-2, <<>>) \cup {MinimalCoinbase}
      [] k = "DeserializerSegWit" ->
            LegacyTxs(1, <<>>) \cup SegWitTxs(2, <<>>, {1}, {<<>>})
      [] k = "DeserializerLitecoin" ->
            LegacyTxs(1, <<>>)
            \cup SegWitTxs(2, <<>>, {0, 1, 2}, {<<>>})
            \cup SegWitTxs(2, <<>>, {9}, {<<0>>, <<5>>})
            \cup MwebTxs
      [] k = "DeserializerTxTimeSegWit" ->
            LegacyTxs(1, TimeField) \cup SegWitTxs(1, TimeField, {1}, {<<>>})
      [] k = "DeserializerTxTimeSegWitNavCoin" ->
            LegacyTxs(1, TimeField) \cup SegWitTxs(1, TimeField, {1}, {<<>>})
            \cup { t \o <<2, 65, 66>> :
                     t \in LegacyTxs(2, TimeField) \cup SegWitTxs(2, TimeField, {1}, {<<>>}) }
      [] k = "DeserializerBitcoinDiamondSegWit" ->
            LegacyTxs(1, <<>>) \cup SegWitTxs(1, <<>>, {1}, {<<>>})
            \cup LegacyTxs(12, Rep(204, 32)) \cup SegWitTxs(12, Rep(204, 32), {1}, {<<>>})
            \cup LegacyTxs(12, <<0>> \o Rep(204, 31))
      [] k = "DeserializerDecred" ->
            { EncDcr(v, ins, outs, w) :
                 v \in {1, 65537}, ins \in InputLists, outs \in OutputLists,
                 w \in 0..(MaxInputs + 1) }

\* a transaction alone, cut short, and between other bytes: the buffer and
\* the start position
Framed(t) ==
    { [b |-> Take(t, k), c |-> 0] : k \in (Len(t) - MaxCut)..Len(t) }
    \cup { [b |-> Take(t, k), c |-> 0] : k \in 0..MaxHead }
    \cup { [b |-> Rep(238, p) \o t \o Rep(221, n), c |-> p] :
              p \in 0..MaxPrefix, n \in 0..MaxTrail }

InitTx ==
    \E k \in Classes : \E t \in TxsOf(k) : \E f \in Framed(t) : Construct(k, f.b, f.c)

ReadTx == Call("read_tx", <<>>, read_tx(cls, binary, cursor))

ReadTxAndHash == Call("read_tx_and_hash", <<>>, read_tx_and_hash(cls, binary, cursor))

ReadTxAndVsize == Call("read_tx_and_vsize", <<>>, read_tx_and_vsize(cls, binary, cursor))

\* tx.serialize() on the transaction read_tx returned
Serialize ==
    /\ op = "read_tx"
    /\ err = ""
    /\ op' = "serialize"
    /\ arg' = ret
    /\ ret' = serialize(ret).val
    /\ err' = serialize(ret).err
    /\ UNCHANGED <<cls, binary, cursor, start, peer>>

\* tx_in.is_generation() on an input of the transaction read_tx returned
IsGeneration ==
    /\ op = "read_tx"
    /\ err = ""
    /\ \E i \in 1..Len(ret.inputs) :
          /\ arg' = ret.inputs[i]
          /\ ret' = is_generation(ret.inputs[i])
    /\ op' = "is_generation"
    /\ UNCHANGED <<cls, binary, cursor, start, err, peer>>

NextTx ==
    \/ ReadTx
    \/ ReadTxAndHash
    \/ ReadTxAndVsize
    \/ Serialize
    \/ IsGeneration

SpecTx == InitTx /\ [][NextTx]_vars

(***************************************************************************)
(* The buffers given to DeserializerZcash, DeserializerPIVX and            *)
(* DeserializerECCoin: transactions with their skipped fields filled in.   *)
(***************************************************************************)
Fill(n) == Rep(170, n)

\* few inputs and outputs: the skipped fields are what varies
ForkInsOuts ==
    { EncInsOuts(SubSeq(InputPool, 1, k), <<OutputPool[1]>>, TRUE) : k \in 0..1 }

Records == 0..MaxRecords

\* the header word of version, with the overwintered bit or not
EncZcashHeader(version, overwintered) ==
    IF overwintered THEN [Pad(ToNum(version), 4) EXCEPT ![4] = @ + 128]
    ELSE Pad(ToNum(version), 4)

SaplingGroupId == <<133, 32, 47, 137>>

Zip225GroupId == Pad(ToNum(ZIP225_VERSION_GROUP_ID), 4)

\* the layout before v5: base fields, expiry height, Sapling fields,
\* joinsplits, binding signature
EncZcash(version, overwintered, group, io, nSpend, nOut, nJS) ==
    EncZcashHeader(version, overwintered)
        \o (IF overwintered THEN group ELSE <<>>)
        \o io \o Locktime
        \o (IF version \in {3, 4} THEN <<1, 1, 1, 1>> ELSE <<>>)
        \o (IF version = 4
            THEN Fill(8) \o EncVarint(nSpend, TRUE) \o Fill(384 * nSpend)
                     \o EncVarint(nOut, TRUE) \o Fill(948 * nOut)
            ELSE <<>>)
        \o (IF version >= 2
            THEN EncVarint(nJS, TRUE)
                     \o (IF nJS > 0
                         THEN Fill(nJS * (1506 + (IF version = 4 THEN 192 ELSE 296))
                                   + 32 + 64)
                         ELSE <<>>)
            ELSE <<>>)
        \o (IF version = 4 /\ (nSpend > 0 \/ nOut > 0) THEN Fill(64) ELSE <<>>)

\* the ZIP-225 layout
EncZcashV5(io, nSpends, nOutputs, nActions, sizeProofs, minimal) ==
    EncZcashHeader(ZIP225_TX_VERSION, TRUE) \o Zip225GroupId
        \o <<7, 7, 7, 7>> \o Locktime \o <<1, 1, 1, 1>> \o io
        \o EncVarint(nSpends, minimal) \o Fill(96 * nSpends)
        \o EncVarint(nOutputs, minimal) \o Fill(756 * nOutputs)
        \o Fill((IF nSpends + nOutputs > 0 THEN 8 ELSE 0)
                + (IF nSpends > 0 THEN 32 ELSE 0)
                + 192 * nSpends + 64 * nSpends + 192 * nOutputs
                + (IF nSpends + nOutputs > 0 THEN 64 ELSE 0))
        \o EncVarint(nActions, minimal)
        \o (IF nActions > 0
            THEN Fill(820 * nActions + 1 + 8 + 32) \o EncVarint(sizeProofs, minimal)
                     \o Fill(sizeProofs + 64 * nActions + 64)
            ELSE <<>>)

ZcashTxs ==
    { EncZcash(v, FALSE, <<>>, io, 0, 0, n) : v \in {1, 2, 3, 5}, io \in ForkInsOuts,
                                              n \in Records }
    \cup { EncZcash(3, TRUE, <<112, 130, 196, 3>>, io, 0, 0, n) :
              io \in ForkInsOuts, n \in Records }
    \cup { EncZcash(4, ow, SaplingGroupId, io, s, o, n) :
              ow \in BOOLEAN, io \in ForkInsOuts, s \in Records, o \in Records,
              n \in Records }
    \cup { EncZcash(5, TRUE, SaplingGroupId, io, 0, 0, 0) : io \in ForkInsOuts }
    \cup { EncZcashV5(io, s, o, a, p, TRUE) :
              io \in ForkInsOuts, s \in Records, o \in Records, a \in Records,
              p \in {0, 2} }
    \cup { EncZcashV5(io, 0, 0, 0, 0, FALSE) : io \in ForkInsOuts }

\* the PIVX layout: the header word, base fields, and the Sapling fields
EncPIVX(header, io, shielded, nSpend, nOut, extra) ==
    header \o io \o Locktime
        \o (IF shielded
            THEN <<0>> \o Fill(8) \o EncVarint(nSpend, TRUE) \o Fill(384 * nSpend)
                     \o EncVarint(nOut, TRUE) \o Fill(948 * nOut) \o Fill(64 + extra)
            ELSE <<>>)

PIVXTxs ==
    { EncPIVX(h, io, FALSE, 0, 0, 0) :
         h \in {<<1, 0, 0, 0>>, <<2, 0, 1, 0>>, <<1, 0, 0, 128>>}, io \in ForkInsOuts }
    \cup { EncPIVX(h, io, TRUE, s, o, 0) :
              h \in {<<3, 0, 0, 0>>, <<0, 1, 0, 0>>, <<1, 0, 1, 0>>},
              io \in ForkInsOuts, s \in Records, o \in Records }
    \cup { EncPIVX(h, io, TRUE, s, o, 2) :
              h \in {<<3, 0, 1, 0>>, <<4, 0, 0, 128>>},
              io \in ForkInsOuts, s \in Records, o \in Records }

ECCoinTxs ==
    { pack_le_int32(v) \o TimeField \o io \o Locktime \o Fill(n) :
         v \in {1, 2, -2}, io \in ForkInsOuts, n \in {0, 32} }

\* inputs for DeserializerZcoin: a Sigma spend (script starting 0xc4), a
\* generation input whose script starts 0xc4, and the inputs of the pool,
\* among them one with an empty script that is not a generation input
SigmaInput(prev_hash, prev_idx) ==
    [prev_hash |-> prev_hash, prev_idx |-> prev_idx, script |-> <<196, 7>>,
     sequence |-> ToNum(5)]

ZcoinInputLists ==
    { <<>>, <<SigmaInput(Rep(17, 32), ToNum(3))>>, <<SigmaInput(ZERO, MINUS_1)>>,
      <<SigmaInput(ZERO, ToNum(0))>>,
      <<InputPool[1]>>, <<InputPool[2]>>, <<InputPool[3]>>, <<InputPool[4]>>,
      <<InputPool[2], SigmaInput(Rep(17, 32), MINUS_1)>> }

ZcoinTxs ==
    { EncLegacy(1, <<>>, ins, <<OutputPool[1]>>, TRUE) : ins \in ZcoinInputLists }

ForkTxs(k) ==
    CASE k = "DeserializerZcash" -> ZcashTxs
      [] k = "DeserializerPIVX" -> PIVXTxs
      [] k = "DeserializerECCoin" -> ECCoinTxs
      [] k = "DeserializerZcoin" -> ZcoinTxs

InitFork ==
    \E k \in ForkClasses : \E t \in ForkTxs(k) : \E f \in Framed(t) : Construct(k, f.b, f.c)

ForkReadTx == Call("read_tx", <<>>, Fork_read_tx(cls, binary, cursor))

ForkReadTxAndHash ==
    Call("read_tx_and_hash", <<>>, Fork_read_tx_and_hash(cls, binary, cursor))

\* tx.serialize() on the TxPIVX read_tx returned
PIVXSerialize ==
    /\ cls = "DeserializerPIVX"
    /\ op = "read_tx"
    /\ err = ""
    /\ op' = "serialize"
    /\ arg' = ret
    /\ ret' = TxPIVX_serialize(ret).val
    /\ err' = TxPIVX_serialize(ret).err
    /\ UNCHANGED <<cls, binary, cursor, start, peer>>

NextFork ==
    \/ ForkReadTx
    \/ ForkReadTxAndHash
    \/ PIVXSerialize

SpecFork == InitFork /\ [][NextFork]_vars

(***************************************************************************)
(* The buffers given to the header extractors, and their calls.            *)
(***************************************************************************)
StaticHeaderSizes == 4..MaxStaticHeader

MerkleSizes == 0..MaxMerkle

\* the lengths of the Equihash solution and of the Primecoin multiplier
TrailerSizes == {0, 2, 253}

\* a static header whose version has the AuxPow flag or not
StaticHeader(flagged, size) ==
    (IF flagged THEN <<1, 1, 0, 0>> ELSE <<1, 0, 0, 0>>) \o Rep(187, size - 4)

\* a CAuxPow: transaction, parent block hash, Merkle branch, index, chain
\* Merkle branch, chain index, parent block header
EncAuxPow(tx, m1, m2) ==
    tx \o Fill(32) \o EncVarint(m1, TRUE) \o Fill(32 * m1) \o Fill(4)
       \o EncVarint(m2, TRUE) \o Fill(32 * m2) \o Fill(4) \o Fill(80)

\* the transactions embedded in a CAuxPow, in the layout class k reads
EmbeddedTxs(k) ==
    CASE k = "DeserializerAuxPow" ->
            { EncLegacy(1, <<>>, SubSeq(InputPool, 1, n), <<OutputPool[1]>>, TRUE) :
                 n \in 0..1 }
      [] k = "DeserializerXaya" ->
            { EncLegacy(1, <<>>, <<InputPool[1]>>, <<OutputPool[1]>>, TRUE),
              EncSegWit(2, <<>>, 1, <<InputPool[1]>>, <<OutputPool[1]>>, 1, <<>>, TRUE) }
      [] k = "DeserializerEmercoin" ->
            { EncLegacy(1, TimeField, <<InputPool[1]>>, <<OutputPool[1]>>, TRUE),
              EncSegWit(1, TimeField, 1, <<InputPool[1]>>, <<OutputPool[1]>>, 1, <<>>, TRUE) }

AuxPows(k) ==
    { EncAuxPow(tx, m1, m2) : tx \in EmbeddedTxs(k), m1 \in MerkleSizes, m2 \in MerkleSizes }

Trailered(size) ==
    { Rep(187, size) \o EncVarint(n, TRUE) \o Fill(n) : n \in TrailerSizes }

HeadersOf(k, size) ==
    CASE k = "DeserializerAuxPow" ->
            {StaticHeader(FALSE, size)}
            \cup { StaticHeader(TRUE, size) \o a : a \in AuxPows(k) }
            \cup AuxPows(k)
      [] k = "DeserializerEmercoin" ->
            {StaticHeader(FALSE, size)}
            \cup { StaticHeader(TRUE, size) \o a : a \in AuxPows(k) }
      [] k = "DeserializerXaya" ->
            {StaticHeader(FALSE, size) \o <<1, 5, 5, 5, 5>> \o Rep(204, size)}
            \cup { StaticHeader(FALSE, size) \o <<129, 5, 5, 5, 5>> \o a : a \in AuxPows(k) }
            \cup AuxPows(k)
      [] k \in {"DeserializerEquihash", "DeserializerPrimecoin"} -> Trailered(size)

InitHeader ==
    \E k \in HeaderClasses : \E size \in StaticHeaderSizes :
       \E h \in HeadersOf(k, size) : \E f \in Framed(h) : Construct(k, f.b, f.c)

ReadHeader ==
    \E size \in StaticHeaderSizes :
       Call("read_header", size, read_header(cls, binary, cursor, size))

ReadAuxPow ==
    /\ cls \in AuxPowClasses
    /\ Call("read_auxpow", <<>>, DeserializerAuxPow_read_auxpow(cls, binary, cursor))

IsMergedBlock ==
    /\ cls = "DeserializerEmercoin"
    /\ Call("is_merged_block", <<>>, DeserializerEmercoin_is_merged_block(binary, cursor))

NextHeader ==
    \/ ReadHeader
    \/ ReadAuxPow
    \/ IsMergedBlock

SpecHeader == InitHeader /\ [][NextHeader]_vars

(***************************************************************************)
(* Two Deserializers over one buffer, their calls interleaved.             *)
(***************************************************************************)
SharedClasses == {"DeserializerTokenPay", "DeserializerEmercoin"}

Shared_read_tx(k, b, c) ==
    CASE k = "DeserializerTokenPay" -> DeserializerTokenPay_read_tx(b, c)
      [] k = "DeserializerEmercoin" ->
            First(DeserializerTxTimeSegWit_read_tx_parts(b, c, TX_HASH_FN(k)))

\* an input with an anonymous-input script of n bytes whose second byte is
\* marker
AnonInput(n, marker) ==
    [prev_hash |-> Rep(17, 32), prev_idx |-> ToNum(2),
     script |-> <<OP_RETURN, marker>> \o Fill(n - 2), sequence |-> MINUS_1]

TokenPayInputLists ==
    { <<>>, <<AnonInput(MIN_ANON_IN_SIZE, OP_ANON_MARKER)>>,
      <<AnonInput(MIN_ANON_IN_SIZE - 1, OP_ANON_MARKER)>>,
      <<AnonInput(MIN_ANON_IN_SIZE, 0)>>,
      <<InputPool[1], AnonInput(MIN_ANON_IN_SIZE + 1, OP_ANON_MARKER)>> }

SharedTxs(k) ==
    CASE k = "DeserializerTokenPay" ->
            { EncLegacy(1, TimeField, ins, <<OutputPool[1]>>, TRUE) :
                 ins \in TokenPayInputLists }
            \cup { EncLegacy(1, TimeField, <<AnonInput(MIN_ANON_IN_SIZE, OP_ANON_MARKER)>>,
                             <<OutputPool[1]>>, FALSE) }
      [] k = "DeserializerEmercoin" ->
            { EncLegacy(v, TimeField, <<InputPool[1]>>, <<OutputPool[1]>>, TRUE) :
                 v \in {1, 257} }

InitShared ==
    \E k \in SharedClasses : \E t \in SharedTxs(k) : \E f \in Framed(t) :
       Construct(k, f.b, f.c)

SharedReadTx == Call("read_tx", <<>>, Shared_read_tx(cls, binary, cursor))

SharedReadByte ==
    /\ cursor < MaxByteReads
    /\ Call("_read_byte", <<>>, _read_byte(binary, cursor))

\* a call on the second Deserializer
PeerCall(name, r) ==
    /\ peer.err = ""
    /\ peer' = [cursor |-> r.cursor, op |-> name, start |-> peer.cursor,
                ret |-> r.val, err |-> r.err]
    /\ UNCHANGED <<cls, binary, cursor, op, arg, start, ret, err>>

PeerReadTx == PeerCall("read_tx", Shared_read_tx(cls, binary, peer.cursor))

PeerReadByte ==
    /\ peer.cursor < MaxByteReads
    /\ PeerCall("_read_byte", _read_byte(binary, peer.cursor))

PeerIsMergedBlock ==
    /\ cls = "DeserializerEmercoin"
    /\ PeerCall("is_merged_block",
                DeserializerEmercoin_is_merged_block(binary, peer.cursor))

NextShared ==
    \/ SharedReadTx
    \/ IsGeneration
    \/ SharedReadByte
    \/ IsMergedBlock
    \/ PeerReadTx
    \/ PeerReadByte
    \/ PeerIsMergedBlock

SpecShared == InitShared /\ [][NextShared]_vars

(***************************************************************************)
(* The buffers given to read_tx_block: a count and that many transactions, *)
(* also with a count one above the transactions that follow, with a count  *)
(* in three bytes, and with excess bytes after the last transaction.       *)
(***************************************************************************)
BlockTxPool(k) ==
    CASE k = "Deserializer" ->
            << EncLegacy(1, <<>>, <<InputPool[1]>>, <<OutputPool[1]>>, TRUE),
               EncLegacy(2, <<>>, <<>>, <<>>, TRUE),
               EncLegacy(3, <<>>, <<InputPool[2]>>, <<OutputPool[2]>>, TRUE) >>
      [] k = "DeserializerDecred" ->
            << EncDcr(1, <<InputPool[1]>>, <<OutputPool[1]>>, 1),
               EncDcr(2, <<>>, <<>>, 0),
               EncDcr(3, <<InputPool[2]>>, <<OutputPool[2]>>, 1) >>

\* `count`, then the first n transactions of the pool starting at the
\* from-th, going round
TxListOf(k, count, from, n, minimal) ==
    EncVarint(count, minimal)
        \o Join([i \in 1..n |-> BlockTxPool(k)[((from + i - 2) % 3) + 1]])

TxLists(k) ==
    { TxListOf(k, n, from, n, TRUE) : n \in 0..MaxBlockTxs, from \in 1..2 }
    \cup { TxListOf(k, n + 1, 1, n, TRUE) : n \in 0..1 }
    \cup { TxListOf(k, 1, 3, 1, FALSE) }

BlocksOf(k) ==
    CASE k = "Deserializer" -> TxLists(k)
      [] k = "DeserializerDecred" ->
            { txs \o stxs : txs \in TxLists(k), stxs \in TxLists(k) }

InitBlock ==
    \E k \in BlockClasses : \E t \in BlocksOf(k) : \E f \in Framed(t) :
       Construct(k, f.b, f.c)

ReadTxBlock == Call("read_tx_block", <<>>, read_tx_block(cls, binary, cursor))

BlockReadTxAndHash ==
    Call("read_tx_and_hash", <<>>, Block_read_tx_and_hash(cls, binary, cursor))

BlockReadVarint == Call("_read_varint", <<>>, _read_varint(binary, cursor))

NextBlock ==
    \/ ReadTxBlock
    \/ BlockReadTxAndHash
    \/ BlockReadVarint

SpecBlock == InitBlock /\ [][NextBlock]_vars

(***************************************************************************)
(* The count-driven loops, one iteration at a time.  A loop                *)
(* [read() for _ in range(n)] is entered by evaluating n (LoopCount), runs *)
(* read() once per step (LoopRead) and ends when n items are read          *)
(* (LoopReturn) or a read raises.  arg holds the reader, the number of     *)
(* fields the caller passes to _read_witness, n, the number i of           *)
(* iterations completed, and the position `first` of the first item; ret   *)
(* holds the items read so far.  The interpreter runs a call to its end,   *)
(* which is the fairness condition of SpecLoop.                            *)
(***************************************************************************)
ReadersOf(k) ==
    CASE k = "Deserializer" -> {"tx_and_hash", "input", "output"}
      [] k = "DeserializerSegWit" -> {"witness_field", "varbytes"}
      [] k = "DeserializerDecred" ->
            {"tx_and_hash", "input_dcr", "output_dcr", "witness_field_dcr"}

\* the readers whose loop is given its count by the caller
FieldsReaders == {"witness_field", "witness_field_dcr"}

\* the same leaving the cursor where it was
StepRead_in_place(k, reader, b, c) ==
    IF reader = "tx_and_hash"
    THEN [Block_read_tx_and_hash(k, b, c) EXCEPT !.cursor = c]
    ELSE [ReadItem(reader, b, c) EXCEPT !.cursor = c]

\* read() of one iteration
StepRead(k, reader, b, c) ==
    IF reader = "tx_and_hash" THEN Block_read_tx_and_hash(k, b, c)
    ELSE ReadItem(reader, b, c)

\* the n of range(n): self._read_varint(), or fields
CountOf(reader, b, c, fields) ==
    CASE reader = "witness_field" -> Return(c, ToNum(fields))
      [] reader = "witness_field_dcr" ->
            Bind(_read_varint(b, c), LAMBDA n:
            IF ToNum(fields) # n.val THEN Raise(n.cursor, "AssertionError") ELSE n)
      [] OTHER -> _read_varint(b, c)

\* the whole loop as the decoders run it
WholeLoop(k, reader, b, c, fields) ==
    CASE reader = "tx_and_hash" -> TxList(k, b, c)
      [] reader = "witness_field" -> _read_witness(b, c, fields)
      [] reader = "witness_field_dcr" -> DeserializerDecred_read_witness(b, c, fields)
      [] OTHER -> Bind(_read_varint(b, c), LAMBDA n: Items(reader, b, n.cursor, n.val))

\* three items for each reader
ItemPool(k, reader) ==
    CASE reader = "tx_and_hash" -> BlockTxPool(k)
      [] reader = "input" -> [i \in 1..3 |-> EncInput(InputPool[i], TRUE)]
      [] reader = "output" ->
            [i \in 1..3 |-> EncOutput(OutputPool[(i % 2) + 1], i < 3)]
      [] reader = "varbytes" -> << <<0>>, <<1, 7>>, <<2, 8, 9>> >>
      [] reader = "witness_field" -> [i \in 1..3 |-> EncStack(WitnessPool[i], TRUE)]
      [] reader = "input_dcr" -> [i \in 1..3 |-> EncInputDcr(InputPool[i])]
      [] reader = "output_dcr" -> [i \in 1..3 |-> EncOutputDcr(OutputPool[(i % 2) + 1])]
      [] reader = "witness_field_dcr" ->
            [i \in 1..3 |-> pack_le_int64(OutputPool[1].value)
                               \o pack_le_uint32(ToNum(i)) \o pack_le_uint32(ToNum(0))
                               \o EncBytes(Rep(i, i), TRUE)]

\* the counts written before the items: small ones, and the largest of each
\* width
LoopCounts(reader) ==
    IF reader = "witness_field" THEN {<<>>}
    ELSE { EncVarint(n, TRUE) : n \in 0..(MaxLoopItems + 1) }
         \cup { <<253, 255, 255>>, <<254>> \o Rep(255, 4), <<255>> \o Rep(255, 8) }

LoopBuffers(k, reader) ==
    { count \o Join(SubSeq(ItemPool(k, reader), 1, n)) :
         count \in LoopCounts(reader), n \in 0..MaxLoopItems }

FieldsOf(reader) == IF reader \in FieldsReaders THEN 0..(MaxLoopItems + 1) ELSE {0}

LoopClasses == {"Deserializer", "DeserializerSegWit", "DeserializerDecred"}

InitLoop ==
    \E k \in LoopClasses : \E reader \in ReadersOf(k) :
    \E t \in LoopBuffers(k, reader) : \E f \in Framed(t) :
    \E fields \in FieldsOf(reader) :
       /\ cls = k
       /\ binary = f.b
       /\ cursor = f.c
       /\ op = "__init__"
       /\ arg = [reader |-> reader, fields |-> fields, n |-> <<>>, i |-> 0,
                 first |-> f.c]
       /\ start = f.c
       /\ ret = <<>>
       /\ err = ""
       /\ peer = Instance(f.c)

\* the loop is entered with the count n, or the call ends with what
\* evaluating the count raised
Entered(n) ==
    /\ op' = "for"
    /\ cursor' = n.cursor
    /\ err' = n.err
    /\ arg' = [arg EXCEPT !.n = n.val, !.first = n.cursor]
    /\ UNCHANGED <<cls, binary, start, ret, peer>>

\* range(self._read_varint()), range(fields)
LoopCount ==
    /\ op = "__init__"
    /\ err = ""
    /\ Entered(CountOf(arg.reader, binary, cursor, arg.fields))

\* the item r joins the list, or the call ends with what reading it raised
Collected(r) ==
    /\ cursor' = r.cursor
    /\ err' = r.err
    /\ ret' = IF r.err = "" THEN Append(ret, r.val) ELSE <<>>
    /\ arg' = IF r.err = "" THEN [arg EXCEPT !.i = @ + 1] ELSE arg
    /\ UNCHANGED <<cls, binary, op, start, peer>>

\* one more read()
LoopRead ==
    /\ op = "for"
    /\ err = ""
    /\ ToNum(arg.i) # arg.n
    /\ Collected(StepRead(cls, arg.reader, binary, cursor))

\* range(n) is exhausted: the list is returned
LoopReturn ==
    /\ op = "for"
    /\ err = ""
    /\ ToNum(arg.i) = arg.n
    /\ op' = "return"
    /\ UNCHANGED <<cls, binary, cursor, arg, start, ret, err, peer>>

NextLoop ==
    \/ LoopCount
    \/ LoopRead
    \/ LoopReturn

\* a step of NextLoop is possible exactly while the call is running: one of
\* the three guards holds, and the step changes op, err or arg.i
Running == op \in {"__init__", "for"} /\ err = ""

\* WF_vars(NextLoop) with Running for ENABLED <<NextLoop>>_vars: a call that
\* is running takes its next step
RunsToTheEnd == []<>(~Running) \/ []<><<NextLoop>>_vars

SpecLoop == InitLoop /\ [][NextLoop]_vars /\ RunsToTheEnd

(***************************************************************************)
(* Properties of the primitive reads.                                      *)
(***************************************************************************)
PrimitiveReads ==
    { "_read_byte", "_read_nbytes", "_read_varint", "_read_varbytes",
      "_read_le_int32", "_read_le_int64", "_read_le_uint16", "_read_be_uint16",
      "_read_le_uint32", "_read_le_uint64" }

\* the width of the varint whose marker byte is m
WidthClass(m) == IF m < 253 THEN 1 ELSE IF m = 253 THEN 3 ELSE IF m = 254 THEN 5 ELSE 9

\* bytes left in the buffer when the last call started
Remaining == Len(binary) - start

\* the value a complete varint at the start position encodes, saturated
VarintValueAtStart ==
    LET w == WidthClass(binary[start + 1])
    IN  IF w = 1 THEN binary[start + 1]
        ELSE NumVal(Strip(SubSeq(binary, start + 2, start + w)))

\* the number of bytes the last call asked for, saturated at CursorCap
Requested ==
    CASE op = "_read_byte" -> 1
      [] op = "_read_nbytes" -> arg
      [] op \in {"_read_le_uint16", "_read_be_uint16"} -> 2
      [] op \in {"_read_le_int32", "_read_le_uint32"} -> 4
      [] op \in {"_read_le_int64", "_read_le_uint64"} -> 8
      [] op = "_read_varint" ->
            IF Remaining = 0 THEN 1 ELSE WidthClass(binary[start + 1])
      [] op = "_read_varbytes" ->
            IF Remaining = 0 THEN 1
            ELSE IF WidthClass(binary[start + 1]) > Remaining
                 THEN WidthClass(binary[start + 1])
                 ELSE Sat(WidthClass(binary[start + 1]) + VarintValueAtStart)

\* C1: a primitive read started inside the buffer fails when it asks for more
\* bytes than remain, and when it returns, the cursor has advanced by exactly
\* the bytes read, stays within the buffer, and a byte string returned has its
\* full length and is the bytes of the buffer just before the cursor.
C1_ReadsAreBoundsChecked ==
    (op \in PrimitiveReads /\ 0 <= start /\ start <= Len(binary)) =>
        /\ Requested > Remaining => err # ""
        /\ err = "" =>
            /\ cursor = start + Requested
            /\ cursor <= Len(binary)
            /\ op = "_read_nbytes" =>
                  /\ Len(ret) = arg
                  /\ ret = SubSeq(binary, start + 1, start + arg)
            /\ op = "_read_varbytes" =>
                  /\ Len(ret) = VarintValueAtStart
                  /\ ret = SubSeq(binary, cursor - Len(ret) + 1, cursor)
            /\ op = "_read_byte" => ret = binary[start + 1]
            /\ op \in {"_read_le_uint16", "_read_le_uint32", "_read_le_uint64"} =>
                  Pad(ret, Requested) = SubSeq(binary, start + 1, start + Requested)
            /\ op = "_read_le_int32" =>
                  pack_le_int32(ret) = SubSeq(binary, start + 1, start + 4)

\* a _read_nbytes(n) that asked for more than the bytes left, and failed
C1_Witness ==
    /\ op = "_read_nbytes"
    /\ Remaining > 0
    /\ arg > Remaining
    /\ err = "AssertionError"

\* the buffer holds the bytes e at the position where the last call started
HoldsAtStart(e) ==
    /\ start + Len(e) <= Len(binary)
    /\ SubSeq(binary, start + 1, start + Len(e)) = e

\* the documented width of the minimal encoding of a boundary value
DocumentedWidth(v) ==
    IF v \in {ToNum(0), ToNum(1), ToNum(252)} THEN 1
    ELSE IF v \in {ToNum(253), ToNum(254), ToNum(255), ToNum(65535)} THEN 3
    ELSE IF v \in {ToNum(65536), U32Max} THEN 5
    ELSE 9

\* C6: _read_varint returns the marker byte n itself when n < 253 (1 byte),
\* and otherwise the little-endian value of the next 2, 4 or 8 bytes for
\* n = 253, 254, 255 (3, 5, 9 bytes); a non-minimal encoding is accepted
\* (FD 01 00 is 1); the minimal encoding of each boundary value decodes to
\* the value with the documented width.
C6_VarintWidthClasses ==
    op = "_read_varint" =>
        /\ (err = "" /\ binary[start + 1] < 253) =>
              /\ cursor = start + 1
              /\ NumVal(ret) = binary[start + 1]
        /\ (err = "" /\ binary[start + 1] = 253) =>
              /\ cursor = start + 3
              /\ cursor <= Len(binary)
              /\ NumVal(ret) = binary[start + 2] + 256 * binary[start + 3]
        /\ (err = "" /\ binary[start + 1] = 254) =>
              /\ cursor = start + 5
              /\ cursor <= Len(binary)
              /\ Len(ret) <= 4
              /\ Pad(ret, 4) = SubSeq(binary, start + 2, start + 5)
        /\ (err = "" /\ binary[start + 1] = 255) =>
              /\ cursor = start + 9
              /\ cursor <= Len(binary)
              /\ Len(ret) <= 8
              /\ Pad(ret, 8) = SubSeq(binary, start + 2, start + 9)
        /\ err = "" => (ret = <<>> \/ ret[Len(ret)] # 0)
        /\ HoldsAtStart(<<253, 1, 0>>) => (err = "" /\ ret = ToNum(1))
        /\ \A v \in BoundaryValues :
              HoldsAtStart(pack_varint(v)) =>
                  /\ err = ""
                  /\ ret = v
                  /\ cursor - start = DocumentedWidth(v)
                  /\ Len(pack_varint(v)) = DocumentedWidth(v)

\* the 9-byte encoding of 2^64 - 1 was decoded
C6_Witness ==
    /\ op = "_read_varint"
    /\ err = ""
    /\ HoldsAtStart(pack_varint(U64Max))
    /\ ret = U64Max
    /\ cursor = start + 9

(***************************************************************************)
(* Properties of the transaction decoders.                                 *)
(***************************************************************************)
Decodes == {"read_tx", "read_tx_and_hash", "read_tx_and_vsize"}

\* the transaction the last decode returned
Decoded == IF op = "read_tx" THEN ret ELSE ret[1]

\* the byte of the buffer at offset off from where the last call started
ByteAt(off) == binary[start + off + 1]

\* the bytes of the buffer the last decode consumed
Consumed == Slice(binary, start, cursor)

\* the last decode ended as the decoder whose outcome is legacy would, run
\* from the same position: the same error or the same transaction, and the
\* same cursor
SameAsLegacy(legacy) ==
    /\ err = legacy.err
    /\ cursor = legacy.cursor
    /\ err = "" => Decoded = legacy.val

\* C2: DeserializerSegWit decodes with the legacy layout, as the base
\* Deserializer does from the same position, exactly when the byte at
\* cursor+4 is nonzero, and returns a TxSegWit with marker 0 and the byte at
\* cursor+5 as flag when it is zero; every legacy serialization with at least
\* one input is decoded to the Tx the base Deserializer returns.
\* DeserializerTxTimeSegWit does the same with the byte at cursor+8 and
\* DeserializerTxTime.
C2_MarkerSelectsLayout ==
    /\ (cls = "DeserializerSegWit" /\ op \in Decodes) =>
          /\ Len(binary) <= start + 4 => (err = "IndexError" /\ cursor = start)
          /\ (Len(binary) > start + 4 /\ ByteAt(4) # 0) =>
                /\ SameAsLegacy(Deserializer_read_tx(binary, start))
                /\ err = "" => Decoded.type = "Tx"
          /\ (Len(binary) > start + 4 /\ ByteAt(4) = 0 /\ err = "") =>
                /\ Decoded.type = "TxSegWit"
                /\ Decoded.marker = 0
                /\ Decoded.flag = ByteAt(5)
          /\ (/\ Deserializer_read_tx(binary, start).err = ""
              /\ Len(Deserializer_read_tx(binary, start).val.inputs) >= 1) =>
                /\ ByteAt(4) # 0
                /\ err = ""
                /\ Decoded = Deserializer_read_tx(binary, start).val
    /\ (cls = "DeserializerTxTimeSegWit" /\ op \in Decodes) =>
          /\ Len(binary) <= start + 8 => (err = "IndexError" /\ cursor = start)
          /\ (Len(binary) > start + 8 /\ ByteAt(8) # 0) =>
                /\ SameAsLegacy(DeserializerTxTime_read_tx(binary, start))
                /\ err = "" => Decoded.type = "TxTime"
          /\ (Len(binary) > start + 8 /\ ByteAt(8) = 0 /\ err = "") =>
                /\ Decoded.type = "TxTimeSegWit"
                /\ Decoded.marker = 0
                /\ Decoded.flag = ByteAt(9)
          /\ (/\ DeserializerTxTime_read_tx(binary, start).err = ""
              /\ Len(DeserializerTxTime_read_tx(binary, start).val.inputs) >= 1) =>
                /\ ByteAt(8) # 0
                /\ err = ""
                /\ Decoded = DeserializerTxTime_read_tx(binary, start).val

\* DeserializerSegWit decoded a legacy transaction of two inputs, the first
\* one a generation input (32 zero bytes follow the input count), that other
\* bytes precede in the buffer
C2_Witness ==
    /\ cls = "DeserializerSegWit"
    /\ op = "read_tx"
    /\ err = ""
    /\ start > 0
    /\ ret.type = "Tx"
    /\ Len(ret.inputs) = 2
    /\ ret.inputs[1].prev_hash = ZERO
    /\ ByteAt(4) = 2

\* the validly constructed transactions given to Deserializer and to
\* DeserializerSegWit
ValidTxs ==
    ValidLegacyTxs(1, <<>>) \cup ValidLegacyTxs(-2, <<>>) \cup {MinimalCoinbase}
    \cup ValidSegWitTxs(2, <<>>)

\* the last decode consumed a validly constructed transaction
ValidlyConstructed == Consumed \in ValidTxs

\* Tx(version, inputs, outputs, locktime).serialize() of the decoded fields
LegacySerialization(tx) ==
    Tx_serialize(Tx(tx.version, tx.inputs, tx.outputs, tx.locktime))

\* where the outputs of the SegWit transaction at the start position end:
\* the inputs begin after version, marker and flag
InsOutsEnd == _read_outputs(binary, _read_inputs(binary, start + 6).cursor).cursor

\* C3: the bytes read_tx_and_hash hands to the hash function are, for a
\* legacy transaction, the bytes the transaction takes in the buffer, and
\* for a SegWit transaction the version, the bytes of inputs and outputs and
\* the locktime, without marker, flag and witness; they are the legacy
\* serialization of the decoded fields when every count and length in the
\* buffer has its smallest form, that is when the transaction is validly
\* constructed, or, what is the same, when the serialization is not shorter
\* than the hashed bytes.
C3_HashedBytes ==
    (/\ cls \in {"Deserializer", "DeserializerSegWit"}
     /\ op = "read_tx_and_hash"
     /\ err = "") =>
        /\ ret[2].fn = "double_sha256"
        /\ ret[1].type = "Tx" => ret[2].data = Consumed
        /\ ret[1].type = "TxSegWit" =>
              /\ ret[2].data = Slice(binary, start, start + 4)
                                  \o Slice(binary, start + 6, InsOutsEnd)
                                  \o Slice(binary, cursor - 4, cursor)
              /\ _read_witness(binary, InsOutsEnd, Len(ret[1].inputs))
                    = Return(cursor - 4, ret[1].witness)
        /\ Len(LegacySerialization(ret[1])) <= Len(ret[2].data)
        /\ ValidlyConstructed => ret[2].data = LegacySerialization(ret[1])
        /\ Len(LegacySerialization(ret[1])) = Len(ret[2].data) =>
              ret[2].data = LegacySerialization(ret[1])

\* read_tx_and_hash on a validly constructed SegWit transaction of two
\* inputs whose first witness stack is not empty
C3_Witness ==
    /\ cls = "DeserializerSegWit"
    /\ op = "read_tx_and_hash"
    /\ err = ""
    /\ ret[1].type = "TxSegWit"
    /\ Len(ret[1].inputs) = 2
    /\ ret[1].witness[1] # <<>>
    /\ ValidlyConstructed
    /\ Len(ret[2].data) < Len(Consumed)

\* the bytes from inputs to outputs of the SegWit transaction at the start
\* position
BaseSize == InsOutsEnd - (start + 6)

\* C4: read_tx_and_vsize returns, for a SegWit transaction,
\* floor((3 * base_size + total_size) / 4) with base_size the bytes of
\* inputs and outputs and total_size the bytes the transaction takes in the
\* buffer, and for a legacy transaction the bytes it takes in the buffer,
\* whatever the buffer and the start position.
C4_VsizeOfTransaction ==
    (/\ cls \in {"Deserializer", "DeserializerSegWit"}
     /\ op = "read_tx_and_vsize"
     /\ err = "") =>
        /\ ret[1].type = "Tx" => ret[2] = cursor - start
        /\ ret[1].type = "TxSegWit" =>
              ret[2] = (3 * BaseSize + (cursor - start)) \div 4

\* the transaction classes with a witness field that the SegWit family
\* returns
WitnessBearing == {"TxSegWit", "TxTimeSegWit", "TxBitcoinDiamondSegWit"}

\* the fields of the Decred transaction at the start position that precede
\* the witness count
DecredPrefix == Fields(binary, start, SubSeq(TxDcrLayout, 1, 5))

\* the Decred transaction at the start position has a witness count, and it
\* is not the number of its inputs
DecredWitnessCountDiffers ==
    /\ DecredPrefix.err = ""
    /\ _read_varint(binary, DecredPrefix.cursor).err = ""
    /\ _read_varint(binary, DecredPrefix.cursor).val
          # ToNum(Len(DecredPrefix.val.inputs))

\* DeserializerDecred fails whenever the witness count in the buffer differs
\* from the number of inputs, and what it returns has a witness per input
DecredWitnessCountChecked ==
    (cls = "DeserializerDecred" /\ op \in Decodes) =>
        /\ DecredWitnessCountDiffers => err = "AssertionError"
        /\ err = "" => Len(Decoded.witness) = Len(Decoded.inputs)

\* C5 as stated: every transaction with a witness field that a decoder of
\* the SegWit family returns has as many witness stacks as inputs, and
\* DeserializerDecred fails whenever the witness count in the buffer differs
\* from the number of inputs.
C5_WitnessPerInputAlways ==
    /\ (cls \in SegWitFamily /\ op \in Decodes /\ err = ""
            /\ Decoded.type \in WitnessBearing) =>
          Len(Decoded.witness) = Len(Decoded.inputs)
    /\ DecredWitnessCountChecked

\* C5 amended: the same, except that DeserializerLitecoin returns an empty
\* witness list, whatever the number of inputs, when the witness bit of the
\* flag byte (flag & 1) is not set.
C5_WitnessPerInput ==
    /\ (cls \in SegWitFamily /\ op \in Decodes /\ err = ""
            /\ Decoded.type \in WitnessBearing) =>
          IF cls = "DeserializerLitecoin" /\ Decoded.flag % 2 = 0
          THEN Decoded.witness = <<>>
          ELSE Len(Decoded.witness) = Len(Decoded.inputs)
    /\ DecredWitnessCountChecked

\* DeserializerDecred met a witness count of 1 after two inputs, and failed
C5_Witness ==
    /\ cls = "DeserializerDecred"
    /\ op = "read_tx"
    /\ DecredWitnessCountDiffers
    /\ Len(DecredPrefix.val.inputs) = 2
    /\ _read_varint(binary, DecredPrefix.cursor).val = ToNum(1)
    /\ err = "AssertionError"

\* C7 as stated: serialize() on the transaction decoded from a validly
\* constructed legacy or SegWit transaction returns the bytes decoded.
C7_RoundTripLegacyAndSegWit ==
    (op = "serialize" /\ arg.type \in {"Tx", "TxSegWit"} /\ ValidlyConstructed) =>
        /\ err = ""
        /\ ret = Consumed

\* C7 amended: the round trip holds for the legacy variant only.  serialize()
\* on a decoded Tx returns the bytes decoded when the transaction is validly
\* constructed (every count and length in its smallest form, which is when
\* the serialization is as long as the bytes decoded), and decoding what
\* serialize() returns gives the Tx back; the other transaction classes these
\* decoders return have no serialize method, and calling it raises
\* AttributeError.
C7_RoundTripLegacy ==
    op = "serialize" =>
        /\ arg.type = "Tx" =>
              /\ err = ""
              /\ Len(ret) <= Len(Consumed)
              /\ ValidlyConstructed => ret = Consumed
              /\ Len(ret) = Len(Consumed) => ret = Consumed
              /\ Deserializer_read_tx(ret, 0) = Return(Len(ret), arg)
        /\ arg.type # "Tx" => err = "AttributeError"

\* serialize() gave back the bytes of a legacy transaction of two inputs and
\* one output
C7_Witness ==
    /\ op = "serialize"
    /\ arg.type = "Tx"
    /\ err = ""
    /\ Len(arg.inputs) = 2
    /\ Len(arg.outputs) = 1
    /\ arg.inputs[2].script # <<>>
    /\ ValidlyConstructed
    /\ ret = Consumed

\* C8: is_generation() is true exactly when prev_idx is 0xFFFFFFFF and
\* prev_hash is 32 zero bytes, for a TxInput and a TxInputDcr alike, and it
\* is true of the sole input of the decoded minimal coinbase transaction.
C8_GenerationInput ==
    op = "is_generation" =>
        /\ arg.type \in {"TxInput", "TxInputDcr"}
        /\ ret <=> (/\ arg.prev_idx = <<255, 255, 255, 255>>
                    /\ arg.prev_hash = [i \in 1..32 |-> 0])
        /\ (cls = "Deserializer" /\ binary = MinimalCoinbase /\ start = 0) =>
              /\ arg.script = <<>>
              /\ ret = TRUE

\* is_generation() was true of the input of the minimal coinbase transaction
C8_Witness ==
    /\ op = "is_generation"
    /\ cls = "Deserializer"
    /\ binary = MinimalCoinbase
    /\ start = 0
    /\ cursor = Len(binary)
    /\ ret = TRUE

\* C9: DeserializerLitecoin raises SkipTxDeserialize from each decode entry
\* point when the buffer has six bytes or more from the cursor and the bytes
\* at cursor+4 and cursor+5 are both 0, whatever follows, having read no
\* further than the flag byte.
C9_LitecoinZeroFlagSkips ==
    (/\ cls = "DeserializerLitecoin"
     /\ op \in Decodes
     /\ Len(binary) >= start + 6
     /\ ByteAt(4) = 0
     /\ ByteAt(5) = 0) =>
        /\ err = SkipTxDeserialize
        /\ cursor = start + 6

\* read_tx_and_vsize met a zero marker and a zero flag with bytes after them
C9_Witness ==
    /\ cls = "DeserializerLitecoin"
    /\ op = "read_tx_and_vsize"
    /\ Len(binary) > start + 6
    /\ ByteAt(4) = 0
    /\ ByteAt(5) = 0
    /\ ByteAt(6) # 0
    /\ err = SkipTxDeserialize

\* the inputs and outputs that follow the flag byte of the buffer
LitecoinInsOuts ==
    Fields(binary, start + 6, << <<"inputs", "inputs">>, <<"outputs", "outputs">> >>)

\* the witness section as C10 states it: a stack per input when flag & 1 is
\* set, and nothing otherwise
LitecoinWitnessSection ==
    IF ByteAt(5) % 2 = 1
    THEN _read_witness(binary, LitecoinInsOuts.cursor, Len(LitecoinInsOuts.val.inputs))
    ELSE Return(LitecoinInsOuts.cursor, <<>>)

\* flag & 8 is set
MwebBit == (ByteAt(5) \div 8) % 2 = 1

\* where the locktime is, once the witness section is read
LitecoinLocktimeAt == LitecoinWitnessSection.cursor + (IF MwebBit THEN 1 ELSE 0)

\* C10: DeserializerLitecoin, on a marker of 0 and a flag that is not 0
\* followed by inputs and outputs that decode, reads a witness stack per
\* input exactly when flag & 1 is set and has an empty witness list
\* otherwise; exactly when flag & 8 is set it consumes one more byte, raises
\* SkipTxDeserialize if that byte is not 0, and otherwise goes on with the
\* locktime and returns a TxSegWit.  SkipTxDeserialize is raised in no other
\* case than a flag of 0 and a nonzero MWEB byte.
C10_LitecoinFlagBits ==
    /\ (/\ cls = "DeserializerLitecoin"
        /\ op \in Decodes
        /\ Len(binary) >= start + 6
        /\ ByteAt(4) = 0
        /\ ByteAt(5) # 0
        /\ LitecoinInsOuts.err = "") =>
          /\ LitecoinWitnessSection.err # "" =>
                /\ err = LitecoinWitnessSection.err
                /\ err # SkipTxDeserialize
          /\ (/\ LitecoinWitnessSection.err = ""
              /\ MwebBit
              /\ Len(binary) > LitecoinWitnessSection.cursor
              /\ binary[LitecoinWitnessSection.cursor + 1] # 0) =>
                /\ err = SkipTxDeserialize
                /\ cursor = LitecoinWitnessSection.cursor + 1
          /\ (/\ LitecoinWitnessSection.err = ""
              /\ Len(binary) >= LitecoinLocktimeAt + 4
              /\ MwebBit => binary[LitecoinWitnessSection.cursor + 1] = 0) =>
                /\ err = ""
                /\ Decoded.type = "TxSegWit"
                /\ Decoded.flag = ByteAt(5)
                /\ Decoded.inputs = LitecoinInsOuts.val.inputs
                /\ Decoded.outputs = LitecoinInsOuts.val.outputs
                /\ Decoded.witness = LitecoinWitnessSection.val
                /\ Decoded.locktime
                      = Strip(Slice(binary, LitecoinLocktimeAt, LitecoinLocktimeAt + 4))
                /\ cursor = LitecoinLocktimeAt + 4
    /\ err = SkipTxDeserialize =>
          /\ cls = "DeserializerLitecoin"
          /\ op \in Decodes
          /\ ByteAt(4) = 0
          /\ \/ ByteAt(5) = 0
             \/ /\ MwebBit
                /\ LitecoinInsOuts.err = ""
                /\ LitecoinWitnessSection.err = ""
                /\ cursor = LitecoinWitnessSection.cursor + 1
                /\ binary[cursor] # 0

\* DeserializerLitecoin returned a TxSegWit with an input and no witness
\* from a flag of 8 and a zero MWEB byte
C10_Witness ==
    /\ cls = "DeserializerLitecoin"
    /\ op = "read_tx"
    /\ err = ""
    /\ ByteAt(4) = 0
    /\ ByteAt(5) = 8
    /\ ret.type = "TxSegWit"
    /\ Len(ret.inputs) >= 1
    /\ ret.witness = <<>>
    /\ binary[LitecoinWitnessSection.cursor + 1] = 0
    /\ cursor = LitecoinWitnessSection.cursor + 5

(***************************************************************************)
(* Properties of the decoders that skip fields (SpecFork).                 *)
(***************************************************************************)
\* C11: a read_tx of DeserializerZcash, DeserializerPIVX or DeserializerECCoin
\* that returns a transaction leaves cursor <= binary_length; a buffer too
\* short for the skipped fields makes the call fail.
C11_CursorWithinBuffer ==
    (cls \in ForkClasses /\ op \in {"read_tx", "read_tx_and_hash"} /\ err = "")
        => cursor <= Len(binary)

\* the header word at the start position is that of a ZIP-225 transaction:
\* overwintered bit set, version 5, and version group id 0x26A7270A
Zip225At ==
    /\ Slice(binary, start, start + 4) = <<5, 0, 0, 128>>
    /\ Slice(binary, start + 4, start + 8) = <<10, 39, 167, 38>>

\* C15: DeserializerZcash.read_tx_and_hash gives the double hash of the raw
\* bytes consumed whenever read_tx decoded with the layout before v5, and the
\* NU5 digest exactly when read_tx decoded with the ZIP-225 layout: for every
\* header word and group id the layout and the id algorithm agree.
C15_ZcashIdFollowsLayout ==
    (cls = "DeserializerZcash" /\ op = "read_tx_and_hash" /\ err = "")
        => /\ ret[2].data = Consumed
           /\ ret[2].fn = (IF Zip225At THEN "zcash_txid_v5" ELSE "double_sha256")

\* the header word at the start position, its version with the overwintered
\* bit cleared, and the position after the header word and the group id
ZcashHeaderAt == Slice(binary, start, start + 4)

ZcashVersionAt ==
    ZcashHeaderAt[1] + 256 * ZcashHeaderAt[2] + 65536 * ZcashHeaderAt[3]
        + 16777216 * (ZcashHeaderAt[4] % 128)

ZcashBaseAt == start + (IF ZcashHeaderAt[4] >= 128 THEN 8 ELSE 4)

BaseFields ==
    << <<"inputs", "inputs">>, <<"outputs", "outputs">>, <<"locktime", "le_uint32">> >>

InsOutsFields == << <<"inputs", "inputs">>, <<"outputs", "outputs">> >>

\* the count at position p, and the bytes of a varint count at position p
\* with `size` bytes for each record counted
Count(b, p) == NumVal(_read_varint(b, p).val)

Counted(b, p, size) == (_read_varint(b, p).cursor - p) + size * Count(b, p)

ExpiryLen(v) == IF v \in {3, 4} THEN 4 ELSE 0

\* 8 bytes of value balance, varint nSpend, 384*nSpend, varint nOut, 948*nOut
SaplingLen(b, p, v) ==
    IF v = 4
    THEN 8 + Counted(b, p + 8, 384) + Counted(b, p + 8 + Counted(b, p + 8, 384), 948)
    ELSE 0

HasShielded(b, p) ==
    Count(b, p + 8) > 0 \/ Count(b, p + 8 + Counted(b, p + 8, 384)) > 0

\* varint nJS and, when nJS > 0, the descriptions, the key and the signature
JoinSplitLen(b, p, v) ==
    IF v >= 2
    THEN Counted(b, p, 1506 + (IF v = 4 THEN 192 ELSE 296))
            + (IF Count(b, p) > 0 THEN 32 + 64 ELSE 0)
    ELSE 0

BindingSigLen(b, p, v) == IF v = 4 /\ HasShielded(b, p) THEN 64 ELSE 0

\* the bytes consumed after the base fields that end at p, version v
PreV5Skipped(b, p, v) ==
    ExpiryLen(v) + SaplingLen(b, p + ExpiryLen(v), v)
        + JoinSplitLen(b, p + ExpiryLen(v) + SaplingLen(b, p + ExpiryLen(v), v), v)
        + BindingSigLen(b, p + ExpiryLen(v), v)

ZcashPreV5Read == cls = "DeserializerZcash" /\ op = "read_tx" /\ err = "" /\ ~Zip225At

\* C18: DeserializerZcash.read_tx on a transaction that is not ZIP-225 v5
\* consumes after the base fields (inputs, outputs, locktime) exactly 4 bytes
\* iff version is 3 or 4; iff version is 4, 8 bytes, a varint nSpend,
\* 384*nSpend, a varint nOut and 948*nOut; iff version >= 2 a varint nJS and,
\* when nJS > 0, nJS*(1506+192) for version 4 or nJS*(1506+296) otherwise plus
\* 32+64; and 64 bytes iff version is 4 and nSpend > 0 or nOut > 0. The
\* returned Tx holds the version with the overwintered bit cleared and the
\* base fields, nothing of what was skipped.
C18_ZcashPreV5Skips ==
    ZcashPreV5Read =>
       /\ ret = Tx(ZcashVersionAt,
                   Fields(binary, ZcashBaseAt, BaseFields).val.inputs,
                   Fields(binary, ZcashBaseAt, BaseFields).val.outputs,
                   Fields(binary, ZcashBaseAt, BaseFields).val.locktime)
       /\ cursor = Fields(binary, ZcashBaseAt, BaseFields).cursor
                     + PreV5Skipped(binary, Fields(binary, ZcashBaseAt, BaseFields).cursor,
                                    ZcashVersionAt)

\* an overwintered version 4 transaction with a shielded spend, a shielded
\* output and a joinsplit has been decoded
C18_Witness ==
    /\ ZcashPreV5Read
    /\ ZcashVersionAt = 4 /\ ZcashHeaderAt[4] >= 128
    /\ cursor - Fields(binary, ZcashBaseAt, BaseFields).cursor
          = 4 + 8 + 1 + 384 + 1 + 948 + 1 + (1506 + 192) + 32 + 64 + 64

\* a version 2 transaction with a joinsplit has been decoded
C18_WitnessV2 ==
    /\ ZcashPreV5Read
    /\ ZcashVersionAt = 2
    /\ cursor - Fields(binary, ZcashBaseAt, BaseFields).cursor = 1 + (1506 + 296) + 32 + 64

\* the Sapling bundle at p: varint nSpends, 96*nSpends, varint nOutputs,
\* 756*nOutputs, 8 iff nSpends+nOutputs > 0, 32 iff nSpends > 0, 192*nSpends,
\* 64*nSpends, 192*nOutputs, 64 iff nSpends+nOutputs > 0
SaplingV5Of(p, l1, nSpends, nOutputs) ==
    l1 + Counted(binary, p + l1, 756)
       + (IF nSpends + nOutputs > 0 THEN 8 ELSE 0) + (IF nSpends > 0 THEN 32 ELSE 0)
       + 192 * nSpends + 64 * nSpends + 192 * nOutputs
       + (IF nSpends + nOutputs > 0 THEN 64 ELSE 0)

SaplingV5Len(p) ==
    SaplingV5Of(p, Counted(binary, p, 96), Count(binary, p),
                Count(binary, p + Counted(binary, p, 96)))

\* the Orchard bundle at q: varint nActions, 820*nActions and, iff
\* nActions > 0, 1+8+32, a varint proof length and that many bytes,
\* 64*nActions and 64
OrchardV5Len(q) ==
    Counted(binary, q, 820)
       + (IF Count(binary, q) > 0
          THEN 1 + 8 + 32 + Counted(binary, q + Counted(binary, q, 820) + 1 + 8 + 32, 1)
                 + 64 * Count(binary, q) + 64
          ELSE 0)

V5Skipped(p) == SaplingV5Len(p) + OrchardV5Len(p + SaplingV5Len(p))

ZcashV5Read == cls = "DeserializerZcash" /\ op = "read_tx" /\ err = "" /\ Zip225At

\* the position after the outputs of a ZIP-225 transaction
OutputsEndV5 == Fields(binary, start + 20, InsOutsFields).cursor

AllCountsZero ==
    /\ Count(binary, OutputsEndV5) = 0
    /\ Count(binary, OutputsEndV5 + Counted(binary, OutputsEndV5, 96)) = 0
    /\ Count(binary, OutputsEndV5 + SaplingV5Len(OutputsEndV5)) = 0

\* the three counts are each encoded in one byte
OneByteCounts ==
    /\ binary[OutputsEndV5 + 1] < 253
    /\ binary[OutputsEndV5 + Counted(binary, OutputsEndV5, 96) + 1] < 253
    /\ binary[OutputsEndV5 + SaplingV5Len(OutputsEndV5) + 1] < 253

ZcashV5Layout ==
    ZcashV5Read =>
       /\ ret = Tx(5,
                   Fields(binary, start + 20, InsOutsFields).val.inputs,
                   Fields(binary, start + 20, InsOutsFields).val.outputs,
                   _read_le_uint32(binary, start + 12).val)
       /\ cursor = OutputsEndV5 + V5Skipped(OutputsEndV5)

\* C19 as stated: DeserializerZcash.read_tx on a ZIP-225 v5 transaction
\* returns the locktime that follows the branch id, decodes inputs and outputs
\* after the expiry height and consumes the Sapling and Orchard bundles by
\* their counts; with all three counts zero exactly three bytes follow the
\* outputs.
C19_ZcashV5Skips ==
    /\ ZcashV5Layout
    /\ (ZcashV5Read /\ AllCountsZero) => cursor = OutputsEndV5 + 3

\* C19, amended: the same, and with all three counts zero and each encoded in
\* one byte exactly three bytes follow the outputs (a zero count may also be
\* written FD 00 00, which the decoder accepts).
C19_ZcashV5SkipsOneByteCounts ==
    /\ ZcashV5Layout
    /\ (ZcashV5Read /\ AllCountsZero /\ OneByteCounts) => cursor = OutputsEndV5 + 3

\* a ZIP-225 transaction with a Sapling spend, a Sapling output and an Orchard
\* action with a proof has been decoded
C19_Witness ==
    /\ ZcashV5Read
    /\ Count(binary, OutputsEndV5) > 0
    /\ Count(binary, OutputsEndV5 + Counted(binary, OutputsEndV5, 96)) > 0
    /\ Count(binary, OutputsEndV5 + SaplingV5Len(OutputsEndV5)) > 0
    /\ cursor = OutputsEndV5 + (1 + 96 + 1 + 756 + 8 + 32 + 192 + 64 + 192 + 64)
                    + (1 + 820 + 1 + 8 + 32 + 1 + 2 + 64 + 64)

\* a ZIP-225 transaction with three zero counts in one byte each has been
\* decoded
C19_WitnessEmpty ==
    /\ ZcashV5Read /\ AllCountsZero /\ OneByteCounts
    /\ Len(ret.inputs) > 0

\* the two halves of the 4-byte header at the start position
PIVXLow16 == binary[start + 1] + 256 * binary[start + 2]

PIVXHigh16 == binary[start + 3] + 256 * binary[start + 4]

PIVXSplit == PIVXHigh16 # 0 /\ PIVXLow16 >= 3

PIVXBaseEnd == Fields(binary, start + 4, BaseFields).cursor

\* a varint, 8 bytes, varint-counted 384-byte spends, varint-counted 948-byte
\* outputs and 64 bytes, at position p
PIVXShieldedOf(p, l0) ==
    l0 + 8 + Counted(binary, p + l0 + 8, 384)
       + Counted(binary, p + l0 + 8 + Counted(binary, p + l0 + 8, 384), 948) + 64

PIVXShieldedLen(p) == PIVXShieldedOf(p, Counted(binary, p, 0))

PIVXRead == cls = "DeserializerPIVX" /\ op = "read_tx" /\ err = ""

\* txtype = header >> 16 and version = header & 0xffff when the high 16 bits
\* are nonzero and the low 16 bits are >= 3, otherwise the whole header and 0
PIVXHeaderSplit ==
    PIVXRead =>
       /\ ret.txtype = ToNum(IF PIVXSplit THEN PIVXHigh16 ELSE 0)
       /\ ret.version = (IF PIVXSplit THEN ToNum(PIVXLow16)
                         ELSE Strip(Slice(binary, start, start + 4)))

\* the shielded fields are skipped exactly when the 16-bit version is >= 3,
\* with 2 more bytes if txtype > 0
PIVXSkipsBy16BitVersion ==
    PIVXRead =>
       cursor = PIVXBaseEnd
                  + (IF PIVXLow16 >= 3
                     THEN PIVXShieldedLen(PIVXBaseEnd) + (IF ret.txtype # <<>> THEN 2 ELSE 0)
                     ELSE 0)

\* the shielded fields are skipped exactly when the returned version is >= 3
PIVXSkipsByReturnedVersion ==
    PIVXRead =>
       cursor = PIVXBaseEnd
                  + (IF NumVal(ret.version) >= 3
                     THEN PIVXShieldedLen(PIVXBaseEnd) + (IF ret.txtype # <<>> THEN 2 ELSE 0)
                     ELSE 0)

\* the returned version fits the 16-bit field that TxPIVX.serialize writes
PIVXVersionFits ==
    /\ PIVXRead => Len(ret.version) <= 2
    /\ (cls = "DeserializerPIVX" /\ op = "serialize") => err = ""

\* C20: DeserializerPIVX.read_tx returns txtype = header >> 16 and
\* version = header & 0xffff when the high 16 bits of the header are nonzero
\* and the low 16 bits are >= 3, and otherwise the whole header as version
\* with txtype 0; the shielded fields are skipped exactly for transactions
\* whose 16-bit version is >= 3; and the returned version always fits the
\* 16-bit field that TxPIVX.serialize writes.
C20_PIVXHeaderAndSkips ==
    /\ PIVXHeaderSplit
    /\ PIVXSkipsBy16BitVersion
    /\ PIVXVersionFits

\* what DeserializerZcoin._read_input is to return for the standard input
ZcoinInputOf(txin) ==
    IF txin.prev_idx = MINUS_1 /\ txin.prev_hash = ZERO THEN txin
    ELSE IF txin.script # <<>> /\ txin.script[1] = 196
         THEN [txin EXCEPT !.prev_hash = Zeros(32), !.prev_idx = <<255, 255, 255, 255>>]
         ELSE txin

\* C22: for every standard input that the base Deserializer decodes
\* (including one with an empty script) DeserializerZcoin._read_input
\* returns it unchanged if it is generation-like, with prev_hash of 32 zero
\* bytes and prev_idx 0xFFFFFFFF and its own script and sequence if the
\* script's first byte is 0xc4, and unchanged otherwise; it never fails on an
\* input the base decoder accepts and advances the cursor as the base
\* decoder does.
C22_ZcoinInputs ==
    (cls = "DeserializerZcoin" /\ op = "read_tx"
     /\ Deserializer_read_tx(binary, start).err = "") =>
        /\ err = ""
        /\ cursor = Deserializer_read_tx(binary, start).cursor
        /\ Len(ret.inputs) = Len(Deserializer_read_tx(binary, start).val.inputs)
        /\ \A i \in 1..Len(ret.inputs) :
              ret.inputs[i] = ZcoinInputOf(Deserializer_read_tx(binary, start).val.inputs[i])

\* the same for the inputs whose script is not empty, or that are
\* generation-like
ZcoinInputsWithScript ==
    (cls = "DeserializerZcoin" /\ op = "read_tx"
     /\ Deserializer_read_tx(binary, start).err = ""
     /\ \A i \in 1..Len(Deserializer_read_tx(binary, start).val.inputs) :
           \/ Deserializer_read_tx(binary, start).val.inputs[i].script # <<>>
           \/ TxInput_is_generation(Deserializer_read_tx(binary, start).val.inputs[i])) =>
        /\ err = ""
        /\ cursor = Deserializer_read_tx(binary, start).cursor
        /\ Len(ret.inputs) = Len(Deserializer_read_tx(binary, start).val.inputs)
        /\ \A i \in 1..Len(ret.inputs) :
              ret.inputs[i] = ZcoinInputOf(Deserializer_read_tx(binary, start).val.inputs[i])

\* a non-generation input with an empty script makes read_tx raise IndexError
ZcoinEmptyScriptRaises ==
    (cls = "DeserializerZcoin" /\ op = "read_tx"
     /\ Deserializer_read_tx(binary, start).err = ""
     /\ \E i \in 1..Len(Deserializer_read_tx(binary, start).val.inputs) :
           /\ Deserializer_read_tx(binary, start).val.inputs[i].script = <<>>
           /\ ~TxInput_is_generation(Deserializer_read_tx(binary, start).val.inputs[i])) =>
        err = "IndexError"

(***************************************************************************)
(* Properties of the block header extractors (SpecHeader).                 *)
(***************************************************************************)
\* the header length the buffer holds at the start position, for a call
\* read_header(arg): static size, trailer-length varint and trailer, or for
\* DeserializerEmercoin the static size and the CAuxPow if the version has
\* the flag
TrailerAt == _read_varint(binary, start + arg)

EmercoinFlagged == HasAuxPow(_read_le_uint32(binary, start).val)

HeaderLength ==
    IF cls = "DeserializerEmercoin"
    THEN IF EmercoinFlagged
         THEN AuxPowWalk(cls, binary, start + arg).cursor - start
         ELSE arg
    ELSE TrailerAt.cursor + NumVal(TrailerAt.val) - start

\* C12: read_header of DeserializerEquihash, DeserializerPrimecoin and
\* DeserializerEmercoin called at any position start returns exactly
\* binary[start : start + L] for the header length L and leaves the cursor
\* at start + L.
C12_HeaderAtAnyStart ==
    (/\ op = "read_header"
     /\ cls \in {"DeserializerEquihash", "DeserializerPrimecoin", "DeserializerEmercoin"}
     /\ err = "")
        => /\ ret = Slice(binary, start, start + HeaderLength)
           /\ cursor = start + HeaderLength

\* varint width + 32*m + 4 of the Merkle branch at position p
BranchLength(b, p) ==
    (_read_varint(b, p).cursor - p) + 32 * NumVal(_read_varint(b, p).val) + 4

\* the two Merkle branches, the first of length l1 at position p
TwoBranches(b, p, l1) == l1 + BranchLength(b, p + l1)

\* the length of a CAuxPow at position c whose transaction has length t
ProofLengthOf(b, c, t) ==
    t + 32 + TwoBranches(b, c + t + 32, BranchLength(b, c + t + 32)) + 80

\* (embedded transaction length) + 32 + (varint width + 32*m1) + 4
\* + (varint width + 32*m2) + 4 + 80
ProofLength(k, b, c) == ProofLengthOf(b, c, Header_read_tx(k, b, c).cursor - c)

AuxPowHeaderLength ==
    IF HasAuxPow(_read_le_uint32(binary, start).val)
    THEN arg + ProofLength(cls, binary, start + arg)
    ELSE arg

XayaHeaderLength ==
    arg + 1 + 4 + (IF binary[start + arg + 1] >= MM_FLAG
                   THEN ProofLength(cls, binary, start + arg + 5)
                   ELSE arg)

\* C17: DeserializerAuxPow.read_header(static_header_size) at any cursor
\* position start returns binary[start : start + L] and leaves the cursor at
\* start + L, where L is static_header_size when the version's AuxPow flag is
\* unset and otherwise static_header_size plus the length of the proof
\* (transaction, 32, two varint-counted Merkle branches of 32-byte hashes each
\* with a 4-byte index, 80); DeserializerXaya.read_header returns
\* binary[start : start + L] with L = static_header_size + 1 + 4 + (the proof
\* length if algo & 0x80, else static_header_size)
C17_AuxPowHeaderLength ==
    /\ (op = "read_header" /\ cls = "DeserializerAuxPow" /\ err = "")
          => /\ ret = Slice(binary, start, start + AuxPowHeaderLength)
             /\ cursor = start + AuxPowHeaderLength
    /\ (op = "read_header" /\ cls = "DeserializerXaya" /\ err = "")
          => /\ ret = Slice(binary, start, start + XayaHeaderLength)
             /\ cursor = start + XayaHeaderLength

\* a flagged header with a non-empty Merkle branch has been extracted from a
\* position other than 0
C17_Witness ==
    /\ op = "read_header" /\ cls = "DeserializerAuxPow" /\ err = ""
    /\ start > 0
    /\ HasAuxPow(_read_le_uint32(binary, start).val)
    /\ Len(ret) > arg + ProofLength(cls, binary, start + arg) - 32
    /\ NumVal(_read_varint(binary, Header_read_tx(cls, binary, start + arg).cursor + 32).val) > 0

\* a Xaya header with a merge-mined proof has been extracted from a position
\* other than 0
C17_WitnessXaya ==
    /\ op = "read_header" /\ cls = "DeserializerXaya" /\ err = ""
    /\ start > 0
    /\ binary[start + arg + 1] >= MM_FLAG

(***************************************************************************)
(* Properties of the Decred id (SpecTx).                                   *)
(***************************************************************************)
\* the no-witness prefix of the Decred transaction at the start position:
\* the low 16 bits of the version, the serialization type 1, and the bytes
\* after the version up to the end of the expiry
DecredHashed ==
    <<ByteAt(0), ByteAt(1), 1, 0>> \o Slice(binary, start + 4, DecredPrefix.cursor)

\* C13: DeserializerDecred.read_tx_and_hash hashes exactly the 4-byte word
\* 0x10000 | (version & 0xffff) followed by the bytes of the buffer from
\* after the version through the end of the expiry: no byte of the witness
\* section and none of the high 16 bits of the version is hashed.
C13_DecredHashedBytes ==
    (cls = "DeserializerDecred" /\ op = "read_tx_and_hash" /\ err = "")
        => ret[2].data = DecredHashed

\* an id of a Decred transaction whose version has high bits set and which
\* has a witness
C13_Witness ==
    /\ cls = "DeserializerDecred"
    /\ op = "read_tx_and_hash"
    /\ err = ""
    /\ ByteAt(2) # 0
    /\ Len(ret[1].witness) >= 1
    /\ ret[2].data = DecredHashed
    /\ Len(DecredHashed) < cursor - start

\* C14 as stated: the Decred id is the double-round hash blake256d of the
\* no-witness prefix.
C14_DecredDoubleRound ==
    (cls = "DeserializerDecred" /\ op = "read_tx_and_hash" /\ err = "")
        => ret[2].fn = "blake256d"

\* C14 amended: the Decred id is the single-round hash blake256 of the
\* no-witness prefix.
C14_DecredSingleRound ==
    (cls = "DeserializerDecred" /\ op = "read_tx_and_hash" /\ err = "")
        => ret[2] = blake256(DecredHashed)

\* an id of a Decred transaction with inputs
C14_Witness ==
    /\ cls = "DeserializerDecred"
    /\ op = "read_tx_and_hash"
    /\ err = ""
    /\ Len(ret[1].inputs) >= 1
    /\ ret[2].fn = "blake256"

(***************************************************************************)
(* Properties of interleaved Deserializers (SpecShared).                   *)
(***************************************************************************)
\* the call `name` made at cursor c by a Deserializer that runs alone
Alone(name, c) ==
    CASE name = "read_tx" -> Shared_read_tx(cls, binary, c)
      [] name = "_read_byte" -> _read_byte(binary, c)
      [] name = "is_merged_block" -> DeserializerEmercoin_is_merged_block(binary, c)

\* the last call of instance i gave what the same call gives alone
AsAlone(i) ==
    i.op \in {"read_tx", "_read_byte", "is_merged_block"} =>
       /\ i.err = Alone(i.op, i.start).err
       /\ i.cursor = Alone(i.op, i.start).cursor
       /\ i.err = "" => i.ret = Alone(i.op, i.start).val

\* is_merged_block that returns leaves the cursor where it was
Peeked(i) == (i.op = "is_merged_block" /\ i.err = "") => i.cursor = i.start

\* the nested re-decode of DeserializerTokenPay leaves the outer cursor alone:
\* read_tx ends where the plain timestamped decode of the same bytes ends
OuterCursorKept(i) ==
    (cls = "DeserializerTokenPay" /\ i.op = "read_tx") =>
       /\ i.err = DeserializerTxTime_read_tx(binary, i.start).err
       /\ i.cursor = DeserializerTxTime_read_tx(binary, i.start).cursor

Own == [cursor |-> cursor, op |-> op, start |-> start, ret |-> ret, err |-> err]

HasStealth(i) ==
    /\ i.op = "read_tx"
    /\ i.err = ""
    /\ \E n \in 1..Len(i.ret.inputs) : i.ret.inputs[n].type = "TxInputTokenPayStealth"

C16_WitnessPeek ==
    /\ op = "is_merged_block" /\ err = "" /\ ret = TRUE
    /\ peer.op = "is_merged_block" /\ peer.err = "" /\ peer.start # start

(***************************************************************************)
(* Properties of the TokenPay inputs (SpecShared).                         *)
(***************************************************************************)
\* the standard inputs the timestamped decoder reads from the same bytes
StandardInputs == DeserializerTxTime_read_tx(binary, start).val.inputs

\* script of length >= 99 starting with OP_RETURN and 0xb9
AnonScript(script) == Len(script) >= 99 /\ script[1] = 106 /\ script[2] = 185

\* the 36 bytes prev_hash || prev_idx of a standard input
OutPoint(txin) == txin.prev_hash \o Pad(txin.prev_idx, 4)

\* what DeserializerTokenPay._read_input is to return for the standard input
TokenPayInputOf(txin) ==
    IF AnonScript(txin.script)
    THEN [type |-> "TxInputTokenPayStealth",
          keyimage |-> SubSeq(OutPoint(txin), 1, 33),
          ringsize |-> SubSeq(OutPoint(txin), 34, 36),
          script |-> txin.script, sequence |-> txin.sequence]
    ELSE [type |-> "TxInputTokenPay", prev_hash |-> txin.prev_hash,
          prev_idx |-> txin.prev_idx, script |-> txin.script,
          sequence |-> txin.sequence]

TokenPayRead == cls = "DeserializerTokenPay" /\ op = "read_tx" /\ err = ""

\* C21: DeserializerTokenPay._read_input returns a TxInputTokenPayStealth
\* exactly when the standard input's script has length >= 99 and starts with
\* OP_RETURN, 0xb9, and the standard input otherwise; the stealth record has
\* the first 33 and the last 3 of the 36 bytes prev_hash || prev_idx as
\* keyimage and ringsize and the script and sequence of the standard input,
\* it reports is_generation() true, and the outer cursor advances by the
\* length of the standard inputs in the buffer
C21_StealthInputs ==
    /\ TokenPayRead =>
          /\ DeserializerTxTime_read_tx(binary, start).err = ""
          /\ cursor = DeserializerTxTime_read_tx(binary, start).cursor
          /\ Len(ret.inputs) = Len(StandardInputs)
          /\ \A i \in 1..Len(ret.inputs) :
                ret.inputs[i] = TokenPayInputOf(StandardInputs[i])
    /\ (cls = "DeserializerTokenPay" /\ op = "is_generation"
        /\ arg.type = "TxInputTokenPayStealth") => ret = TRUE

\* a standard input and a stealth input have been decoded from one
\* transaction
C21_Witness ==
    /\ TokenPayRead
    /\ Len(ret.inputs) = 2
    /\ ret.inputs[1].type = "TxInputTokenPay"
    /\ ret.inputs[2].type = "TxInputTokenPayStealth"
    /\ Len(ret.inputs[2].keyimage) = 33
    /\ Len(ret.inputs[2].ringsize) = 3

\* is_generation() has been called on a stealth input
C21_WitnessGeneration ==
    /\ cls = "DeserializerTokenPay" /\ op = "is_generation"
    /\ arg.type = "TxInputTokenPayStealth"
    /\ ret = TRUE

(***************************************************************************)
(* Properties of the Bitcoin Diamond decoder (SpecTx).                     *)
(***************************************************************************)
DiamondRead ==
    cls = "DeserializerBitcoinDiamondSegWit" /\ op = "read_tx_and_hash" /\ err = ""

\* the version at the start position is 12
DiamondSentinel == Slice(binary, start, start + 4) = <<12, 0, 0, 0>>

\* where the disambiguation peek is, and the 32 bytes after the version
DiamondPeekAt == start + (IF DiamondSentinel THEN 36 ELSE 4)

DiamondPreblock == Slice(binary, start + 4, DiamondPeekAt)

\* the buffer without the preblock hash, and what DeserializerSegWit decodes
\* from it at the same position: the legacy or SegWit layout
WithoutPreblock == Slice(binary, 0, start + 4) \o Slice(binary, DiamondPeekAt, Len(binary))

PlainParts == DeserializerSegWit_read_tx_parts(WithoutPreblock, start, "double_sha256")

\* the fields of the result other than its class and preblockhash
PlainFields(tx) == [f \in DOMAIN tx \ {"type", "preblockhash"} |-> tx[f]]

\* C23: DeserializerBitcoinDiamondSegWit._read_tx_parts peeks at cursor+36
\* and reads a 32-byte preblock hash right after the version when the version
\* at the cursor is 12, and otherwise peeks at cursor+4 and reads none; the
\* rest of the legacy or SegWit layout is unchanged; the result has a
\* preblockhash exactly when the version is 12; on the SegWit path the hashed
\* bytes are version || preblock hash (if present) || inputs and outputs ||
\* locktime
C23_DiamondSentinel ==
    DiamondRead =>
       /\ PlainParts.err = ""
       /\ cursor = PlainParts.cursor + Len(DiamondPreblock)
       /\ PlainFields(ret[1]) = PlainFields(PlainParts.val[1])
       /\ ("preblockhash" \in DOMAIN ret[1]) <=> DiamondSentinel
       /\ DiamondSentinel =>
             ret[1].preblockhash = hash_to_hex_str(Slice(binary, start + 4, start + 36))
       /\ ret[1].type = (IF binary[DiamondPeekAt + 1] # 0
                         THEN (IF DiamondSentinel THEN "TxBitcoinDiamond" ELSE "Tx")
                         ELSE (IF DiamondSentinel THEN "TxBitcoinDiamondSegWit"
                               ELSE "TxSegWit"))
       /\ ret[2].fn = "double_sha256"
       /\ binary[DiamondPeekAt + 1] = 0 =>
             ret[2].data = Slice(binary, start, DiamondPeekAt)
                              \o SubSeq(PlainParts.val[2].data, 5, Len(PlainParts.val[2].data))

\* a SegWit transaction of version 12 with a witness has been decoded
C23_Witness ==
    /\ DiamondRead
    /\ DiamondSentinel
    /\ ret[1].type = "TxBitcoinDiamondSegWit"
    /\ Len(ret[1].inputs) > 0
    /\ ret[1].witness # <<>>

\* a legacy transaction of version 12 whose preblock hash starts with a zero
\* byte has been decoded
C23_WitnessZeroByte ==
    /\ DiamondRead
    /\ DiamondSentinel
    /\ binary[start + 5] = 0
    /\ ret[1].type = "TxBitcoinDiamond"

(***************************************************************************)
(* Properties of read_tx_block (SpecBlock).                                *)
(***************************************************************************)
\* where the j-th transaction of the list whose first transaction starts at
\* c ends; for j = 0, c itself
RECURSIVE TxEnd(_, _, _, _)
TxEnd(k, b, c, j) ==
    IF j = 0 THEN c ELSE Block_read_tx_and_hash(k, b, TxEnd(k, b, c, j - 1)).cursor

\* what read_tx_and_hash gives for the j-th transaction of that list
PairAt(k, b, c, j) == Block_read_tx_and_hash(k, b, TxEnd(k, b, c, j - 1))

\* the bytes of the j-th transaction of that list
OwnBytes(k, b, c, j) == Slice(b, TxEnd(k, b, c, j - 1), TxEnd(k, b, c, j))

\* pairs are the n transactions that follow each other from c on, each with
\* the id that its own bytes give when they are all there is to read
ListIs(k, b, c, n, pairs) ==
    /\ Len(pairs) = n
    /\ \A j \in 1..n :
          /\ PairAt(k, b, c, j).err = ""
          /\ pairs[j] = PairAt(k, b, c, j).val
          /\ pairs[j] = Block_read_tx_and_hash(k, OwnBytes(k, b, c, j), 0).val
          /\ k = "Deserializer" => pairs[j][2].data = OwnBytes(k, b, c, j)

\* the count read at c, and where the list it counts ends
CountAt(b, c) == NumVal(_read_varint(b, c).val)

ListEnd(k, b, c) == TxEnd(k, b, _read_varint(b, c).cursor, CountAt(b, c))

\* the varint-counted list at c is `pairs`
CountedListIs(k, b, c, pairs) ==
    /\ _read_varint(b, c).err = ""
    /\ ListIs(k, b, _read_varint(b, c).cursor, CountAt(b, c), pairs)

BlockRead == op = "read_tx_block" /\ err = ""

\* C24: read_tx_block of the base decoder reads a varint n and returns
\* exactly n (tx, id) pairs, the k-th transaction starting where the
\* (k-1)-th ended and each id computed from that transaction's own bytes,
\* and leaves the cursor at the end of the n-th transaction whatever
\* follows; DeserializerDecred returns the pairs of the varint-counted
\* regular list followed by those of the varint-counted stake list that
\* starts where the regular list ends.
C24_TxBlockInBufferOrder ==
    BlockRead =>
       /\ cls = "Deserializer" =>
             /\ CountedListIs(cls, binary, start, ret)
             /\ cursor = ListEnd(cls, binary, start)
       /\ cls = "DeserializerDecred" =>
             /\ Len(ret) = CountAt(binary, start)
                             + CountAt(binary, ListEnd(cls, binary, start))
             /\ CountedListIs(cls, binary, start,
                              SubSeq(ret, 1, CountAt(binary, start)))
             /\ CountedListIs(cls, binary, ListEnd(cls, binary, start),
                              SubSeq(ret, CountAt(binary, start) + 1, Len(ret)))
             /\ cursor = ListEnd(cls, binary, ListEnd(cls, binary, start))

\* a Decred block with a regular and a stake transaction that differ has
\* been read
C24_Witness ==
    /\ BlockRead
    /\ cls = "DeserializerDecred"
    /\ CountAt(binary, start) >= 1
    /\ Len(ret) > CountAt(binary, start)
    /\ ret[1] # ret[Len(ret)]
    /\ start > 0

\* a block of two different transactions with excess data after them has
\* been read by the base decoder
C24_WitnessExcess ==
    /\ BlockRead
    /\ cls = "Deserializer"
    /\ Len(ret) = 2
    /\ ret[1] # ret[2]
    /\ cursor < Len(binary)

\* a block whose count takes three bytes has been read
C24_WitnessLongCount ==
    /\ BlockRead
    /\ Len(ret) = 1
    /\ cursor > start + 3
    /\ binary[start + 1] = 253

(***************************************************************************)
(* Properties of the loops (SpecLoop).                                     *)
(***************************************************************************)
\* the call has returned or raised
Finished == op = "return" \/ err # ""

\* the steps a call can still take are at most this many: two more than the
\* length of the buffer before the count is read, one more than the bytes
\* left while the loop runs, none once the call has returned or raised
StepsLeft ==
    IF Finished THEN 0
    ELSE IF op = "__init__" THEN Len(binary) + 2
    ELSE Len(binary) - cursor + 1

\* every step lowers StepsLeft
Decreases == StepsLeft' < StepsLeft

\* a call is running until it has returned or raised
RunningUntilFinished == Running <=> ~Finished

\* the iterations completed are at most the bytes from the first item to the
\* end of the buffer, and at most the bytes consumed so far
IterationsBounded ==
    op # "__init__" =>
       /\ arg.i = 0 \/ arg.first + arg.i <= Len(binary)
       /\ err = "" => arg.first + arg.i <= cursor /\ cursor <= Len(binary)

\* an iteration that does not raise moves the cursor forward
ConsumesAByte == LoopRead /\ err' = "" => cursor' > cursor

\* nothing runs once a read has raised, and a list that was returned stays
StopsAtFirstFailure == ~Finished

\* the steps end where the whole loop ends, with its result
AgreesWithWholeLoop ==
    Finished =>
       /\ cursor = WholeLoop(cls, arg.reader, binary, start, arg.fields).cursor
       /\ err = WholeLoop(cls, arg.reader, binary, start, arg.fields).err
       /\ ret = WholeLoop(cls, arg.reader, binary, start, arg.fields).val

\* C25: every count-driven loop of the decoders (block transactions,
\* inputs, outputs, witness stacks, witness items) ends, returning or
\* raising, whatever count the buffer encodes, up to 2^64-1: every call
\* that keeps running reaches its end, every step lowers a number that
\* starts at the length of the buffer plus two and never falls below zero,
\* an iteration that does not raise consumes at least one byte, the loop
\* stops at the first read that raises, and the iterations completed never
\* exceed the bytes that remained after the count.
C25_LoopsTerminate ==
    /\ <>Finished
    /\ [](StepsLeft >= 0)
    /\ [][Decreases]_vars
    /\ []RunningUntilFinished
    /\ []IterationsBounded
    /\ [][ConsumesAByte]_vars
    /\ [][StopsAtFirstFailure]_vars
    /\ []AgreesWithWholeLoop

\* a loop whose count is 2^64-1 has read an item and has then ended on a
\* read that raised
C25_Witness ==
    /\ op = "for"
    /\ err # ""
    /\ arg.n = Rep(255, 8)
    /\ arg.i >= 1

\* a loop has returned a list of two items
C25_WitnessReturned == op = "return" /\ Len(ret) = 2

====
